---------------------------- MODULE Spec2Model ----------------------------
(***************************************************************************)
(* The chat session controller (ChatProvider) of the Chatropolis client.   *)
(*                                                                         *)
(* The canonical provider is the one in src/src/pages/Index.tsx (lines     *)
(* 357-1747).  Two earlier providers of src/unnamed/part_005 are modelled  *)
(* where the properties refer to them: the provider with the hand-written  *)
(* reconnect loop (part_005 lines 129-1160) and the provider that appends  *)
(* inbound messages after 'registration_success' (part_005 lines           *)
(* 1257-1530).                                                             *)
(*                                                                         *)
(* React state is modelled by one variable per useState/useRef cell.  An   *)
(* action is one event-loop task: a socket event handler, a timer          *)
(* callback or a call of the controller's interface, together with the     *)
(* effects React re-runs because the task changed one of their             *)
(* dependencies.  The socket exists from the first effect on, so Init is   *)
(* the state right after mount.                                            *)
(***************************************************************************)
EXTENDS Integers, Sequences, FiniteSets, TLC

VARIABLES
    now,                \* Date.now(), in milliseconds
    sessionStorage,     \* window.sessionStorage: key -> stored item
    isConnected,        \* useState isConnected
    connCount,          \* number of transport connections so far; socket.id
    currentUser,        \* useState currentUser
    lastMessageTime,    \* useState lastMessageTime
    muteInfo,           \* useState muteInfo
    muteInfoRef,        \* useRef muteInfoRef
    isMuted,            \* useState isMuted
    muteTimeRemaining,  \* useState muteTimeRemaining
    updateTimeoutRef,   \* useRef updateTimeoutRef: is the 1 s interval running
    messages,           \* useState messages (global buffer)
    roomMessages,       \* useState roomMessages (room buffer)
    roomMessagesSeen,   \* roomMessages in the closure of the broadcast listener
    currentRoom,        \* useState currentRoom
    roomRegistry,       \* module-level Map roomRegistry
    create,             \* the pending createRoom call (closure state)
    join,               \* the pending joinRoom call (closure state)
    reconnectAttempts,  \* useState reconnectAttempts
    isReconnecting,     \* useState isReconnecting
    reconnect,          \* part_005: socket and reconnect timers
    registration,       \* the registerUserWithServer calls with work pending
    typing,             \* the debounce timer of debouncedStopTyping
    hack,               \* the pending executeHack call (closure state)
    thread,             \* the messages handed to MessageList / ThreadModal
    monitor,            \* the monitor of createStatusMonitor and its timers
    joinedOnServer,     \* history: rooms with 'join' emitted and no 'leave' yet
    emitted,            \* history: socket.emit calls of the last task
    lastCall            \* history: the last task and what it returned

sessVars == <<sessionStorage, isConnected, connCount, currentUser>>
muteVars == <<muteInfo, muteInfoRef, isMuted, muteTimeRemaining, updateTimeoutRef>>
bufVars  == <<messages, roomMessages, roomMessagesSeen>>
roomVars == <<currentRoom, roomRegistry, create, join, joinedOnServer>>
reconVars == <<reconnectAttempts, isReconnecting, reconnect>>
compVars == <<typing, hack, thread, monitor>>
vars == <<now, sessVars, lastMessageTime, muteVars, bufVars, roomVars,
          reconVars, registration, compVars, emitted, lastCall>>

-----------------------------------------------------------------------------
(* Values *)

\* JavaScript null / undefined.
NULL == [null |-> TRUE]

\* The empty string, and the id of the n-th connection's socket
EmptyString == [empty |-> TRUE]
SocketId(n) == [socket |-> n]

\* Bounds of the model.
StartTime == 10000
MaxTime == 16000
MaxConnects == 3

\* Program constants.
MAX_MESSAGES == 100
MESSAGE_COOLDOWN == 5000
MaxContentLength == 1000
MuteTickMs == 1000

\* How far the clock moves in one step: one mute tick, and one millisecond
\* short of the cooldown.
TimeSteps == {MuteTickMs, MESSAGE_COOLDOWN - 1}

Whitespace == {" "}
WordChars == {"a", "b", "o", "h", "i"}

\* The string of n characters c
RECURSIVE Repeat(_, _)
Repeat(c, n) ==
    IF n = 0 THEN <<>>
    ELSE IF n % 2 = 0
         THEN LET half == Repeat(c, n \div 2) IN half \o half
         ELSE Append(Repeat(c, n - 1), c)

\* String.prototype.trim
Trim(s) ==
    IF \A i \in 1..Len(s) : s[i] \in Whitespace
    THEN <<>>
    ELSE LET first == CHOOSE i \in 1..Len(s) :
                        /\ s[i] \notin Whitespace
                        /\ \A j \in 1..(i - 1) : s[j] \in Whitespace
             last == CHOOSE i \in 1..Len(s) :
                        /\ s[i] \notin Whitespace
                        /\ \A j \in (i + 1)..Len(s) : s[j] \in Whitespace
         IN SubSeq(s, first, last)

\* Math.ceil(a / b) for b > 0
CeilDiv(a, b) == -((-a) \div b)

\* The message bodies the user types.
Bodies ==
    { <<>>,
      <<" ">>,
      <<" ", "h", "i", " ", "@", "b", "o", "b">>,
      Repeat("a", MaxContentLength),
      Repeat("a", MaxContentLength + 1) }

\* Names, colours and identities Math.random() yields in createUser.
Usernames == {"user_a", "user_b"}
Identities == {"identity_1", "identity_2"}
Colors == {"#39ff14"}

-----------------------------------------------------------------------------
(* sessionStorage *)

StorageKeys ==
    {"chat_identity", "chat_user", "user", "identity", "pageLoadTimestamp",
     "intentionalDisconnect", "lastVisibilityChange"}

Str(s) == [str |-> s]

\* JSON.stringify / JSON.parse of a User
Stringify(u) == [json |-> u]
Parse(item) == item.json

RemoveItems(store, keys) ==
    [k \in StorageKeys |-> IF k \in keys THEN NULL ELSE store[k]]

SetItem(store, key, item) == [store EXCEPT ![key] = item]

clearSessionData(store) ==
    RemoveItems(store, {"user", "identity", "pageLoadTimestamp"})

getStoredIdentity(store) == store["chat_identity"]

getStoredUser(store) ==
    IF store["chat_user"] # NULL THEN Parse(store["chat_user"]) ELSE NULL

saveIdentity(store, identity) == SetItem(store, "chat_identity", Str(identity))

saveUser(store, user) == SetItem(store, "chat_user", Stringify(user))

-----------------------------------------------------------------------------
(* History of the last task *)

Call(op) == [op |-> op]

Emit(event, payload) == [event |-> event, payload |-> payload]

Emits(event) == \E i \in 1..Len(emitted) : emitted[i].event = event

\* registerUserWithServer: the socket is connected in every caller's state.
registerUserWithServer(user) ==
    <<Emit("register_user", [identity |-> user.identity,
                             username |-> user.username,
                             color |-> user.color])>>

\* Bound on the registerUserWithServer calls that have work pending.
MaxRegistrations == 2

NoRegistration == <<>>

\* What one registerUserWithServer call leaves behind: the once-listener
\* for 'error', the 5 s timer that removes it, the 1 s timer that emits
\* 'ping', and the 1 s retry timers its error handler starts.  emissions
\* counts the 'register_user' events emitted for the call.
Register(reg, user) ==
    Append(reg, [user |-> user, listener |-> TRUE, offTimer |-> TRUE,
                 pingTimer |-> TRUE, retryTimers |-> 0, emissions |-> 1])

\* error === 'Not registered' || error.includes('register')
IsRegistrationError(error) == error = [message |-> "Not registered"]

\* registrationErrorHandler registered with socket.on: the listener stays
registrationErrorHandler_On(reg, error) ==
    [i \in 1..Len(reg) |->
       IF reg[i].listener
       THEN [reg[i] EXCEPT
               !.retryTimers = IF IsRegistrationError(error) THEN @ + 1 ELSE @]
       ELSE reg[i]]

\* registrationErrorHandler of every call, listening with socket.once, so
\* that the listener is gone when the handler runs
registrationErrorHandler(reg, error) ==
    [i \in 1..Len(reg) |->
       IF reg[i].listener
       THEN [reg[i] EXCEPT
               !.listener = FALSE,
               !.retryTimers = IF IsRegistrationError(error) THEN @ + 1 ELSE @]
       ELSE reg[i]]

\* socket.off('error') in the cleanup of the effect with dependencies
\* [socket, currentRoom] removes every listener of 'error'
ErrorListenersOff(reg) ==
    [i \in 1..Len(reg) |-> [reg[i] EXCEPT !.listener = FALSE]]

\* A call with no listener and no timer left is forgotten.
RegistrationDone(c) ==
    ~c.listener /\ ~c.offTimer /\ ~c.pingTimer /\ c.retryTimers = 0

Prune(reg) == SelectSeq(reg, LAMBDA c : ~RegistrationDone(c))

\* The two effects with dependencies [socket, currentUser] that emit
\* 'check_mute_status' when currentUser is set.
CheckMuteStatusEffects(user) ==
    IF user = NULL THEN <<>>
    ELSE <<Emit("check_mute_status", [username |-> user.username]),
           Emit("check_mute_status", [username |-> user.username])>>


-----------------------------------------------------------------------------
(* Initial state of the other components *)

NoTyping == [timer |-> NULL, lastChange |-> NULL]
\* No hack access, and no executeHack call whose listener or timer is left
NoHack == [hasHackAccess |-> FALSE, calls |-> <<>>, count |-> 0]
\* The messages prop of MessageList and ThreadModal before any message;
\* frame is the activation of getReplyDepth that runs or ran last
NoThread == [messages |-> <<>>, count |-> 0, frame |-> NULL]
\* The monitor createStatusMonitor returns: intervalId of its closure, the
\* intervals of the window that run its check, the number of setInterval
\* calls so far, the checks awaiting checkServerStatus, and (history) whether
\* stop() was the last of the start() and stop() calls
NoMonitor == [intervalId |-> NULL, intervals |-> {}, handles |-> 0,
              inFlight |-> <<>>, stopped |-> FALSE]

-----------------------------------------------------------------------------
(* Listeners of a pending joinRoom call that the provider's effects remove *)

NoJoin == [active |-> FALSE, listeners |-> {}, count |-> 0]
NoCreate == [active |-> FALSE, listener |-> FALSE, count |-> 0]

\* The effect with dependencies [socket, currentRoom, addNotification] cleans
\* up with socket.off('room:metadata_update'), which removes every listener of
\* that event; addNotification changes whenever currentUser does.
OnCurrentUserChange(j) ==
    [j EXCEPT !.listeners = @ \ {"metadata"}]

\* When currentRoom changes, that effect re-runs, and so does the effect with
\* dependencies [socket, currentRoom], whose cleanup calls socket.off('error').
OnCurrentRoomChange(j) ==
    [j EXCEPT !.listeners = @ \ {"metadata", "error"}]

-----------------------------------------------------------------------------
(* Connection and identity (Index.tsx) *)

\* socket 'connect' handler
SocketConnect ==
    /\ ~isConnected
    /\ connCount < MaxConnects
    /\ isConnected' = TRUE
    /\ connCount' = connCount + 1
    /\ IF sessionStorage["intentionalDisconnect"] = Str("true")
       THEN /\ sessionStorage' =
                  RemoveItems(clearSessionData(sessionStorage),
                              {"intentionalDisconnect"})
            /\ emitted' = <<>>
            /\ UNCHANGED <<currentUser, join, registration>>
       ELSE LET storedUser == getStoredUser(sessionStorage)
                storedIdentity == getStoredIdentity(sessionStorage)
            IN IF storedUser # NULL /\ storedIdentity # NULL
               THEN LET updatedUser ==
                          [storedUser EXCEPT !.id = SocketId(connCount + 1)]
                    IN /\ Len(registration) < MaxRegistrations
                       /\ sessionStorage' = saveUser(sessionStorage, updatedUser)
                       /\ currentUser' = updatedUser
                       /\ emitted' = registerUserWithServer(updatedUser)
                                     \o CheckMuteStatusEffects(updatedUser)
                       /\ registration' = Register(registration, updatedUser)
                       /\ join' = OnCurrentUserChange(join)
               ELSE /\ emitted' = <<>>
                    /\ UNCHANGED <<sessionStorage, currentUser, join,
                                   registration>>
    /\ lastCall' = Call("connect")
    /\ UNCHANGED <<compVars, now, lastMessageTime, muteVars, bufVars, currentRoom,
                   roomRegistry, create, joinedOnServer, reconVars>>

\* The reasons socket.io gives for a disconnect the client did not ask for.
DisconnectReasons ==
    {"io server disconnect", "transport close", "transport error", "ping timeout"}

\* socket 'disconnect' handler
SocketDisconnect(reason) ==
    /\ isConnected
    /\ isConnected' = FALSE
    /\ sessionStorage' =
         IF \/ reason = "io client disconnect"
            \/ sessionStorage["intentionalDisconnect"] = Str("true")
         THEN clearSessionData(sessionStorage)
         ELSE sessionStorage
    /\ emitted' = <<>>
    /\ lastCall' = [op |-> "disconnect", reason |-> reason]
    /\ UNCHANGED <<registration, compVars, now, connCount, currentUser, lastMessageTime, muteVars,
                   bufVars, roomVars, reconVars>>

\* createUser()
createUser(username, color, identity) ==
    /\ IF ~isConnected
       THEN /\ emitted' = <<>>
            /\ lastCall' = [op |-> "createUser", created |-> FALSE]
            /\ UNCHANGED <<sessionStorage, currentUser, join, registration>>
       ELSE LET user == [id |-> SocketId(connCount), username |-> username,
                         color |-> color, identity |-> identity]
            IN /\ Len(registration) < MaxRegistrations
               /\ registration' = Register(registration, user)
               /\ sessionStorage' =
                     saveUser(saveIdentity(clearSessionData(sessionStorage),
                                           identity), user)
               /\ currentUser' = user
               /\ emitted' = registerUserWithServer(user)
                             \o CheckMuteStatusEffects(user)
               /\ join' = OnCurrentUserChange(join)
               /\ lastCall' = [op |-> "createUser", created |-> TRUE]
    /\ UNCHANGED <<compVars, now, isConnected, connCount, lastMessageTime, muteVars,
                   bufVars, currentRoom, roomRegistry, create, joinedOnServer,
                   reconVars>>

\* document 'visibilitychange' handler, with the page hidden
handleVisibilityChange ==
    /\ sessionStorage' =
         SetItem(sessionStorage, "lastVisibilityChange", [num |-> now])
    /\ emitted' = <<>>
    /\ lastCall' = Call("visibilitychange")
    /\ UNCHANGED <<registration, compVars, now, isConnected, connCount, currentUser, lastMessageTime,
                   muteVars, bufVars, roomVars, reconVars>>

\* window 'beforeunload' handler
handleBeforeUnload(store) ==
    clearSessionData(SetItem(store, "intentionalDisconnect", Str("true")))

\* window 'unload' handler
handleUnload(store) == clearSessionData(store)

\* A reload of the page in the same tab: the 'beforeunload' and 'unload'
\* handlers run, sessionStorage survives, and the provider mounts again with
\* the initial React state and an empty module-level registry.
PageReload ==
    /\ sessionStorage' = handleUnload(handleBeforeUnload(sessionStorage))
    /\ isConnected' = FALSE
    /\ currentUser' = NULL
    /\ lastMessageTime' = 0
    /\ muteInfo' = NULL
    /\ muteInfoRef' = NULL
    /\ isMuted' = FALSE
    /\ muteTimeRemaining' = 0
    /\ updateTimeoutRef' = FALSE
    /\ messages' = <<>>
    /\ roomMessages' = <<>>
    /\ roomMessagesSeen' = <<>>
    /\ currentRoom' = NULL
    /\ roomRegistry' = <<>>
    /\ create' = NoCreate
    /\ join' = NoJoin
    /\ joinedOnServer' = {}
    /\ emitted' = <<>>
    /\ registration' = NoRegistration
    /\ typing' = NoTyping
    /\ hack' = NoHack
    /\ lastCall' = Call("reload")
    /\ UNCHANGED <<thread, monitor, now, connCount, reconVars>>

-----------------------------------------------------------------------------
(* Time *)

Advance(d) ==
    /\ now + d <= MaxTime
    /\ now' = now + d
    /\ emitted' = <<>>
    /\ lastCall' = Call("advance")
    /\ UNCHANGED <<registration, compVars, sessVars, lastMessageTime, muteVars, bufVars, roomVars,
                   reconVars>>

-----------------------------------------------------------------------------
(* Mute (Index.tsx 750-821) *)

MuteState ==
    [muteInfo |-> muteInfo, muteInfoRef |-> muteInfoRef, isMuted |-> isMuted,
     muteTimeRemaining |-> muteTimeRemaining,
     updateTimeoutRef |-> updateTimeoutRef]

SetMuteState(m) ==
    /\ muteInfo' = m.muteInfo
    /\ muteInfoRef' = m.muteInfoRef
    /\ isMuted' = m.isMuted
    /\ muteTimeRemaining' = m.muteTimeRemaining
    /\ updateTimeoutRef' = m.updateTimeoutRef

\* updateMuteStatus without its expiry branch
updateMuteStatus_NoExpiry(m, t) ==
    IF m.muteInfoRef # NULL
    THEN [m EXCEPT !.muteTimeRemaining =
                      CeilDiv(m.muteInfoRef.muteUntil - t, MuteTickMs)]
    ELSE m

\* updateMuteStatus, at time t
updateMuteStatus(m, t) ==
    IF m.muteInfoRef # NULL
    THEN IF t >= m.muteInfoRef.muteUntil
         THEN [m EXCEPT !.muteInfoRef = NULL, !.muteInfo = NULL,
                        !.isMuted = FALSE, !.muteTimeRemaining = 0]
         ELSE [m EXCEPT !.muteTimeRemaining =
                           CeilDiv(m.muteInfoRef.muteUntil - t, MuteTickMs)]
    ELSE m

\* The effect with dependency [muteInfo], run because muteInfo changed: the
\* old interval is cleared; with mute info present the ref is set, the status
\* is updated once and a new interval starts.  When that update clears
\* muteInfo, the effect runs again and clears the interval it just started.
MuteInfoEffect(m, t) ==
    IF m.muteInfo # NULL
    THEN LET u == updateMuteStatus([m EXCEPT !.muteInfoRef = m.muteInfo], t)
         IN IF u.muteInfo = NULL
            THEN [u EXCEPT !.updateTimeoutRef = FALSE, !.muteInfoRef = NULL]
            ELSE [u EXCEPT !.updateTimeoutRef = TRUE]
    ELSE [m EXCEPT !.updateTimeoutRef = FALSE, !.muteInfoRef = NULL]

\* socket 'user_muted' handler
user_muted(duration, muteUntil, username) ==
    /\ muteUntil <= MaxTime
    /\ SetMuteState(
         MuteInfoEffect(
           [MuteState EXCEPT
              !.muteInfo = [duration |-> duration, muteUntil |-> muteUntil],
              !.isMuted = TRUE,
              !.muteTimeRemaining = CeilDiv(muteUntil - now, MuteTickMs),
              !.muteInfoRef = [duration |-> duration, muteUntil |-> muteUntil]],
           now))
    /\ emitted' = <<>>
    /\ lastCall' = [op |-> "user_muted", muteUntil |-> muteUntil]
    /\ UNCHANGED <<registration, compVars, now, sessVars, lastMessageTime, bufVars, roomVars, reconVars>>

\* socket 'user_unmuted' handler
user_unmuted(username) ==
    /\ IF currentUser # NULL /\ username = currentUser.username
       THEN SetMuteState(
              IF muteInfo # NULL
              THEN MuteInfoEffect(
                     [MuteState EXCEPT !.muteInfoRef = NULL, !.muteInfo = NULL,
                                       !.isMuted = FALSE,
                                       !.muteTimeRemaining = 0], now)
              ELSE [MuteState EXCEPT !.muteInfoRef = NULL, !.isMuted = FALSE,
                                     !.muteTimeRemaining = 0])
       ELSE UNCHANGED muteVars
    /\ emitted' = <<>>
    /\ lastCall' = Call("user_unmuted")
    /\ UNCHANGED <<registration, compVars, now, sessVars, lastMessageTime, bufVars, roomVars, reconVars>>

\* One firing of setInterval(updateMuteStatus, 1000)
MuteTick ==
    /\ updateTimeoutRef
    /\ LET u == updateMuteStatus(MuteState, now)
       IN SetMuteState(IF u.muteInfo # muteInfo THEN MuteInfoEffect(u, now)
                       ELSE u)
    /\ emitted' = <<>>
    /\ lastCall' = Call("muteTick")
    /\ UNCHANGED <<registration, compVars, now, sessVars, lastMessageTime, bufVars, roomVars, reconVars>>

-----------------------------------------------------------------------------
(* Sending (Index.tsx 679-711, 831-883, 1188-1227) *)

validateMessage(content) ==
    /\ ~(content = <<>>)
    /\ ~(Len(content) > MaxContentLength)
    /\ ~(Len(Trim(content)) = 0)

\* extractMentions: content.match(/@(\w+)/g), each match without its '@'.
\* A match starts at every '@' that a word character follows and runs to
\* the end of that run of word characters; '@' is no word character, so the
\* matches of the global regular expression never overlap.
MentionStarts(content) ==
    {i \in 1..(Len(content) - 1) :
        content[i] = "@" /\ content[i + 1] \in WordChars}

\* \w+? in place of \w+: a match ends after its first word character
WordRunEnd_Lazy(content, i) == i

\* \w+ from position i, where a word character stands: the position of the
\* last character of the longest run of word characters
RECURSIVE WordRunEnd(_, _)
WordRunEnd(content, i) ==
    IF i < Len(content) /\ content[i + 1] \in WordChars
    THEN WordRunEnd(content, i + 1)
    ELSE i

\* content.match(/@(\w+)/g) from position i on: the matches from left to
\* right.  A search finds the first position from i on where the expression
\* matches, and the next search starts where that match ended.
RECURSIVE MatchMentions(_, _)
MatchMentions(content, i) ==
    LET found == {k \in MentionStarts(content) : k >= i}
    IN IF found = {} THEN <<>>
       ELSE LET start == CHOOSE k \in found : \A other \in found : k <= other
                end == WordRunEnd(content, start + 1)
            IN <<SubSeq(content, start, end)>>
                   \o MatchMentions(content, end + 1)

\* match.substring(1)
Substring1(match) == SubSeq(match, 2, Len(match))

extractMentions(content) ==
    LET matches == MatchMentions(content, 1)
    IN [k \in 1..Len(matches) |-> Substring1(matches[k])]

\* The mute check of sendMessage
MutedNow == muteInfo # NULL /\ now < muteInfo.muteUntil

\* The cooldown check of sendMessage
CooldownLeft(last) == MESSAGE_COOLDOWN - (now - last)

\* sendMessage without its mute check
sendMessageAccepts_NoMuteCheck(content) ==
    /\ currentUser # NULL
    /\ validateMessage(content)
    /\ ~(CooldownLeft(lastMessageTime) > 0)

\* sendMessage without its cooldown check
sendMessageAccepts_NoCooldown(content) ==
    /\ currentUser # NULL
    /\ ~MutedNow
    /\ validateMessage(content)

\* Does sendMessage(content) pass all of its checks
sendMessageAccepts(content) ==
    /\ currentUser # NULL
    /\ ~MutedNow
    /\ validateMessage(content)
    /\ ~(CooldownLeft(lastMessageTime) > 0)

\* sendMessage that also appends what it sent to the global buffer
sendMessage_LocalEcho(content) ==
    /\ IF sendMessageAccepts(content)
       THEN /\ lastMessageTime' = now
            /\ emitted' = <<Emit("chat_message",
                                 [content |-> content,
                                  senderId |-> currentUser.id,
                                  senderUsername |-> currentUser.username,
                                  userColor |-> currentUser.color])>>
            /\ messages' = Append(messages, [content |-> content])
       ELSE /\ emitted' = <<>>
            /\ UNCHANGED <<lastMessageTime, messages>>
    /\ lastCall' = [op |-> "sendMessage", content |-> content,
                    result |-> sendMessageAccepts(content),
                    lastMessageTime |-> lastMessageTime]
    /\ UNCHANGED <<registration, compVars, now, sessVars, muteVars, roomMessages, roomMessagesSeen,
                   roomVars, reconVars>>

\* sendMessage(content)
sendMessage(content) ==
    /\ IF sendMessageAccepts(content)
       THEN /\ lastMessageTime' = now
            /\ emitted' = <<Emit("chat_message",
                                 [content |-> content,
                                  senderId |-> currentUser.id,
                                  senderUsername |-> currentUser.username,
                                  userColor |-> currentUser.color])>>
       ELSE /\ emitted' = <<>>
            /\ UNCHANGED lastMessageTime
    /\ lastCall' = [op |-> "sendMessage", content |-> content,
                    result |-> sendMessageAccepts(content),
                    lastMessageTime |-> lastMessageTime]
    /\ UNCHANGED <<registration, compVars, now, sessVars, muteVars, bufVars, roomVars, reconVars>>

\* Does sendRoomMessage(content) pass all of its checks
sendRoomMessageAccepts(content) ==
    /\ currentUser # NULL
    /\ currentRoom # NULL
    /\ validateMessage(content)

\* sendRoomMessage(content)
sendRoomMessage(content) ==
    /\ emitted' =
         IF sendRoomMessageAccepts(content)
         THEN <<Emit("room_message",
                     [roomId |-> currentRoom.id, content |-> content,
                      mentions |-> extractMentions(content)])>>
         ELSE <<>>
    /\ lastCall' = [op |-> "sendRoomMessage", content |-> content,
                    result |-> sendRoomMessageAccepts(content),
                    lastMessageTime |-> lastMessageTime]
    /\ UNCHANGED <<registration, compVars, now, sessVars, lastMessageTime, muteVars, bufVars, roomVars,
                   reconVars>>

-----------------------------------------------------------------------------
(* Rooms: values (Index.tsx 248-262, 366-368) *)

\* More bounds of the model.
MaxCreates == 1
MaxJoins == 1
MaxRoomLog == 3

Lowers == <<"a", "b", "c", "d", "e", "v", "w", "x", "y", "z">>
Uppers == <<"A", "B", "C", "D", "E", "V", "W", "X", "Y", "Z">>
Digits == <<"1", "2", "3", "4">>

UpperChar(c) ==
    IF \E i \in 1..Len(Lowers) : Lowers[i] = c
    THEN Uppers[CHOOSE i \in 1..Len(Lowers) : Lowers[i] = c]
    ELSE c

LowerChar(c) ==
    IF \E i \in 1..Len(Uppers) : Uppers[i] = c
    THEN Lowers[CHOOSE i \in 1..Len(Uppers) : Uppers[i] = c]
    ELSE c

\* A toUpperCase that returns its argument
toUpperCase_Identity(s) == s

\* String.prototype.toUpperCase / toLowerCase
toUpperCase(s) == [i \in 1..Len(s) |-> UpperChar(s[i])]
toLowerCase(s) == [i \in 1..Len(s) |-> LowerChar(s[i])]

GLOBAL == [global |-> TRUE]

\* `room_${normalizedCode.toLowerCase()}`
PlaceholderId(normalizedCode) == [room |-> toLowerCase(normalizedCode)]

\* uuidv4() of the n-th createRoom call, and a room another client created
CreatedId(n) == [uuid |-> n]
RemoteId == [uuid |-> 0]

\* Math.random().toString(36).substr(2, 8).toUpperCase() of the n-th call
CreatedCode(n) == <<"V", "W", "X", "Y", "Z", "0", "0", Digits[n]>>

CodeABCDE == <<"A", "B", "C", "D", "E">>

\* The codes the user types into the join dialog.
CodeInputs ==
    { <<"a", "b", "c", "d">>,
      <<"a", "b", "c", "d", "e">>,
      <<"v", "w", "x", "y", "z", "0", "0", "1">> }

\* A Room.  createdAt, members and settings are carried along by the code and
\* never read by the controller; they are left out.
Room(id, name, adminId, theme, code) ==
    [id |-> id, name |-> name, adminId |-> adminId, theme |-> theme,
     code |-> code]

\* Room names: a given text, and `Room ${normalizedCode}`
Name(text) == [text |-> text]
PlaceholderName(normalizedCode) == [roomWithCode |-> normalizedCode]

\* The temporary room of joinRoom for a code that is not in the registry
PlaceholderRoom(normalizedCode) ==
    Room(PlaceholderId(normalizedCode), PlaceholderName(normalizedCode),
         EmptyString, "terminal", normalizedCode)

\* Payloads of 'room:metadata_update' the server may send.
MetadataPayloads ==
    [roomId : {PlaceholderId(CodeABCDE), RemoteId}, roomCode : {CodeABCDE},
     name : {Name("Den")}, theme : {"retro"}, adminId : {SocketId(0)}]

\* Payloads of 'error' the server may send.
ErrorPayloads ==
    {[noRoomFoundWithCode |-> CodeABCDE], [message |-> "Not registered"]}

\* Payloads of 'room:joined:confirm' the server may send.
ConfirmPayloads ==
    [success : BOOLEAN,
     roomId : {PlaceholderId(CodeABCDE), RemoteId, CreatedId(1)}]

\* roomRegistry is a Map: a sequence of entries in insertion order.  Keys are
\* join codes and room ids.
CodeKey(code) == [code |-> code]

RegIndex(reg, key) ==
    IF \E i \in 1..Len(reg) : reg[i].key = key
    THEN CHOOSE i \in 1..Len(reg) : reg[i].key = key
    ELSE 0

RegGet(reg, key) ==
    IF RegIndex(reg, key) = 0 THEN NULL ELSE reg[RegIndex(reg, key)].room

RegSet(reg, key, room) ==
    IF RegIndex(reg, key) = 0
    THEN Append(reg, [key |-> key, room |-> room])
    ELSE [reg EXCEPT ![RegIndex(reg, key)].room = room]

\* Array.from(roomRegistry.values()).find(r => r.id === roomId)
RegFindById(reg, roomId) ==
    IF \E i \in 1..Len(reg) : reg[i].room.id = roomId
    THEN reg[CHOOSE i \in 1..Len(reg) :
                /\ reg[i].room.id = roomId
                /\ \A j \in 1..(i - 1) : reg[j].room.id # roomId].room
    ELSE NULL

\* reactions: reaction kind -> list of usernames; a missing entry reads as []
ReactionKinds == {"thumbsup"}
NoReactions == [k \in ReactionKinds |-> <<>>]

\* A system message synthesized locally, with id `system-${Date.now()}`
SystemMessage(content, roomId) ==
    [id |-> [system |-> now], username |-> "SYSTEM", content |-> content,
     roomId |-> roomId, isSystem |-> TRUE, replyTo |-> NULL,
     reactions |-> NoReactions]

\* [...prev, message].slice(-MAX_MESSAGES)
AppendSlice(prev, message) ==
    LET all == Append(prev, message)
    IN IF Len(all) > MAX_MESSAGES
       THEN SubSeq(all, Len(all) - MAX_MESSAGES + 1, Len(all))
       ELSE all

-----------------------------------------------------------------------------
(* Rooms: the handlers, as functions of the state they read and write *)

\* The state the room handlers of one task read and write.  roomSet records
\* that setCurrentRoom was called with another object than the current one.
RoomState ==
    [currentRoom |-> currentRoom, roomRegistry |-> roomRegistry,
     roomMessages |-> roomMessages, create |-> create, join |-> join,
     registration |-> registration, roomSet |-> FALSE]

setCurrentRoom(r, room) ==
    [r EXCEPT !.currentRoom = room,
              !.roomSet = @ \/ room # r.currentRoom]

\* cleanupListeners of joinRoom
cleanupListeners(j) == [j EXCEPT !.listeners = {}]

\* resolve(value) that changes the outcome of a promise already settled
resolve_Last(j, value) == [j EXCEPT !.promise = value]

\* resolve(value) of the promise joinRoom returned: only the first call counts
resolve(j, value) ==
    IF j.promise = "pending" THEN [j EXCEPT !.promise = value] ELSE j

\* finishJoining of joinRoom
finishJoining(r) ==
    LET r1 == setCurrentRoom(r, r.join.roomToJoin)
    IN [r1 EXCEPT
          !.roomMessages =
             AppendSlice(<<>>, SystemMessage([joined |-> r.join.roomToJoin.name],
                                             r.join.roomToJoin.id)),
          !.join = [resolve(cleanupListeners(r.join), "true")
                      EXCEPT !.finishCount = @ + 1]]

\* The provider's own 'room:metadata_update' listener (Index.tsx 1146-1169).
\* It changes the registry's room object in place; every holder of that
\* object (other registry keys, the closures of pending createRoom and joinRoom
\* calls) sees the change.  Objects are told apart by their value.
MutateShared(r, old, new) ==
    [r EXCEPT
       !.roomRegistry =
          [i \in 1..Len(r.roomRegistry) |->
             IF r.roomRegistry[i].room = old
             THEN [r.roomRegistry[i] EXCEPT !.room = new]
             ELSE r.roomRegistry[i]],
       !.join = IF r.join.active /\ r.join.roomToJoin = old
                THEN [r.join EXCEPT !.roomToJoin = new] ELSE r.join,
       !.create = IF r.create.active /\ r.create.room = old
                  THEN [r.create EXCEPT !.room = new] ELSE r.create]

providerMetadataUpdate(r, metadata) ==
    LET room == RegFindById(r.roomRegistry, metadata.roomId)
    IN IF room = NULL THEN r
       ELSE LET named == [room EXCEPT !.name = metadata.name,
                                      !.theme = metadata.theme,
                                      !.adminId = metadata.adminId]
                recoded == metadata.roomCode # room.code
                updated == IF recoded
                           THEN [named EXCEPT !.code = metadata.roomCode]
                           ELSE named
                r1 == MutateShared(r, room, updated)
                r2 == IF recoded
                      THEN [r1 EXCEPT !.roomRegistry =
                              RegSet(r1.roomRegistry,
                                     CodeKey(metadata.roomCode), updated)]
                      ELSE r1
            IN IF r.currentRoom # NULL /\ r.currentRoom.id = metadata.roomId
               THEN [r2 EXCEPT
                       !.currentRoom = updated,
                       !.roomSet = TRUE,
                       !.roomMessages =
                          AppendSlice(@, SystemMessage(
                                           [roomNameIs |-> metadata.name],
                                           r.currentRoom.id))]
               ELSE r2

\* handleMetadataUpdate of joinRoom
handleMetadataUpdate(r, metadata) ==
    IF \/ metadata.roomId = r.join.roomToJoin.id
       \/ metadata.roomCode = r.join.code
    THEN LET updatedRoom ==
               [r.join.roomToJoin EXCEPT !.name = metadata.name,
                                         !.theme = metadata.theme,
                                         !.adminId = metadata.adminId,
                                         !.id = metadata.roomId,
                                         !.code = metadata.roomCode]
             r1 == [r EXCEPT
                      !.roomRegistry =
                         RegSet(RegSet(@, CodeKey(r.join.code), updatedRoom),
                                updatedRoom.id, updatedRoom),
                      !.join = [@ EXCEPT !.metadataReceived = TRUE,
                                         !.roomToJoin = updatedRoom]]
         IN IF r.join.joinSuccess THEN finishJoining(r1) ELSE r1
    ELSE r

\* handleError of joinRoom
handleError(r, error) ==
    IF error = [noRoomFoundWithCode |-> r.join.code]
    THEN [r EXCEPT !.join = resolve(cleanupListeners(@), "false")]
    ELSE r

\* handleRoomJoined of joinRoom
joinHandleRoomJoined(r, confirm) ==
    LET r1 ==
          IF confirm.success /\ confirm.roomId = r.join.roomToJoin.id
          THEN LET r0 == [r EXCEPT !.join.joinSuccess = TRUE]
               IN IF r.join.metadataReceived \/ r.join.existingRoom
                  THEN finishJoining(r0)
                  ELSE [r0 EXCEPT !.join.graceTimer = "pending"]
          ELSE [r EXCEPT !.join = resolve(cleanupListeners(@), "false")]
    IN [r1 EXCEPT !.join.listeners = @ \ {"confirm"}]

\* handleRoomJoined of createRoom without the comparison of room ids
createHandleRoomJoined_NoIdCheck(r, confirm) ==
    IF confirm.success
    THEN LET r1 == setCurrentRoom(r, r.create.room)
         IN [r1 EXCEPT
               !.roomMessages =
                  AppendSlice(<<>>, SystemMessage(
                                      [created |-> r.create.room.name,
                                       code |-> r.create.room.code],
                                      r.create.room.id)),
               !.create = [@ EXCEPT
                             !.promise = IF @ = "pending" THEN "resolved" ELSE @,
                             !.listener = FALSE]]
    ELSE r

\* handleRoomJoined of createRoom
createHandleRoomJoined(r, confirm) ==
    IF confirm.success /\ confirm.roomId = r.create.room.id
    THEN LET r1 == setCurrentRoom(r, r.create.room)
         IN [r1 EXCEPT
               !.roomMessages =
                  AppendSlice(<<>>, SystemMessage(
                                      [created |-> r.create.room.name,
                                       code |-> r.create.room.code],
                                      r.create.room.id)),
               !.create = [@ EXCEPT
                             !.promise = IF @ = "pending" THEN "resolved" ELSE @,
                             !.listener = FALSE]]
    ELSE r

\* Write back what the handlers of one task left, then run the effects that
\* depend on currentRoom if it was set.
SetRoomState(r) ==
    /\ currentRoom' = r.currentRoom
    /\ roomRegistry' = r.roomRegistry
    /\ roomMessages' = r.roomMessages
    /\ roomMessagesSeen' = IF r.roomSet THEN r.roomMessages ELSE roomMessagesSeen
    /\ create' = r.create
    /\ join' = IF r.roomSet THEN OnCurrentRoomChange(r.join) ELSE r.join
    /\ registration' = IF r.roomSet THEN Prune(ErrorListenersOff(r.registration))
                       ELSE Prune(r.registration)

-----------------------------------------------------------------------------
(* Rooms: the tasks (Index.tsx 886-1186) *)

RoomNames == {Name("Lobby")}
RoomThemes == {"cyberpunk"}

\* Is the closure record of an earlier call no longer needed: its promise is
\* settled and none of its timers is pending.
CreateSettled == IF create.active THEN create.timer = "fired" ELSE TRUE
JoinSettled ==
    IF join.active
    THEN /\ join.promise # "pending"
         /\ join.graceTimer # "pending"
         /\ join.timeoutTimer = "fired"
    ELSE TRUE

\* createRoom(name, theme)
createRoom(name, theme) ==
    /\ CreateSettled
    /\ create.count < MaxCreates
    /\ IF currentUser = NULL
       THEN /\ emitted' = <<>>
            /\ lastCall' = [op |-> "createRoom", result |-> "throws"]
            /\ UNCHANGED <<roomRegistry, create, join, joinedOnServer>>
       ELSE LET n == create.count + 1
                room == Room(CreatedId(n), name, currentUser.id, theme,
                             CreatedCode(n))
            IN /\ roomRegistry' =
                     RegSet(RegSet(roomRegistry, CodeKey(room.code), room),
                            room.id, room)
               /\ emitted' =
                     <<Emit("join", room.id),
                       Emit("room:metadata",
                            [roomId |-> room.id, roomCode |-> room.code,
                             name |-> name, theme |-> theme,
                             adminId |-> currentUser.id])>>
               /\ create' = [active |-> TRUE, count |-> n, room |-> room,
                             listener |-> TRUE, timer |-> "pending",
                             promise |-> "pending"]
               /\ join' = IF join.active
                          THEN [join EXCEPT !.afterCreate = FALSE] ELSE join
               /\ joinedOnServer' = joinedOnServer \cup {room.id}
               /\ lastCall' = [op |-> "createRoom", result |-> "promise"]
    /\ UNCHANGED <<registration, compVars, now, sessVars, lastMessageTime, muteVars, bufVars,
                   currentRoom, reconVars>>

\* The 5 s timer of createRoom
CreateTimeout ==
    /\ create.active
    /\ create.timer = "pending"
    /\ create' = [create EXCEPT
                    !.timer = "fired",
                    !.listener = FALSE,
                    !.promise = IF @ = "pending" THEN "rejected" ELSE @]
    /\ emitted' = <<>>
    /\ lastCall' = Call("createTimeout")
    /\ UNCHANGED <<registration, compVars, now, sessVars, lastMessageTime, muteVars, bufVars,
                   currentRoom, roomRegistry, join, joinedOnServer, reconVars>>

\* joinRoom(code)
joinRoom(code) ==
    /\ JoinSettled
    /\ join.count < MaxJoins
    /\ IF currentUser = NULL \/ code = <<>> \/ Len(code) < 5
       THEN /\ emitted' = <<>>
            /\ lastCall' = [op |-> "joinRoom", code |-> code,
                            result |-> "false"]
            /\ UNCHANGED <<roomRegistry, join, joinedOnServer>>
       ELSE LET normalizedCode == toUpperCase(code)
                existingRoom == RegGet(roomRegistry, CodeKey(normalizedCode))
                roomToJoin == IF existingRoom # NULL THEN existingRoom
                              ELSE PlaceholderRoom(normalizedCode)
            IN /\ roomRegistry' =
                     IF existingRoom # NULL THEN roomRegistry
                     ELSE RegSet(RegSet(roomRegistry, CodeKey(normalizedCode),
                                        roomToJoin),
                                 roomToJoin.id, roomToJoin)
               /\ emitted' =
                     <<Emit("join", roomToJoin.id),
                       Emit("room:request_metadata",
                            [roomCode |-> normalizedCode])>>
               /\ join' = [active |-> TRUE,
                           count |-> join.count + 1,
                           code |-> normalizedCode,
                           requestedId |-> roomToJoin.id,
                           existingRoom |-> existingRoom # NULL,
                           roomToJoin |-> roomToJoin,
                           metadataReceived |-> FALSE,
                           metadataArrived |-> FALSE,
                           joinSuccess |-> FALSE,
                           listeners |-> {"metadata", "error", "confirm"},
                           afterCreate |-> create.listener,
                           graceTimer |-> "none",
                           timeoutTimer |-> "pending",
                           promise |-> "pending",
                           finishCount |-> 0]
               /\ joinedOnServer' = joinedOnServer \cup {roomToJoin.id}
               /\ lastCall' = [op |-> "joinRoom", code |-> code,
                               result |-> "promise",
                               registryBefore |-> roomRegistry]
    /\ UNCHANGED <<registration, compVars, now, sessVars, lastMessageTime, muteVars, bufVars,
                   currentRoom, create, reconVars>>

\* socket 'room:metadata_update': the provider's listener was registered
\* before the one of a pending joinRoom call, so it runs first.
room_metadata_update(metadata) ==
    /\ LET r0 == IF join.active
                 THEN [RoomState EXCEPT !.join.metadataArrived = TRUE]
                 ELSE RoomState
           r1 == providerMetadataUpdate(r0, metadata)
           r2 == IF "metadata" \in join.listeners
                 THEN handleMetadataUpdate(r1, metadata) ELSE r1
       IN SetRoomState(r2)
    /\ emitted' = <<>>
    /\ lastCall' = [op |-> "room:metadata_update", metadata |-> metadata,
                    heardByJoin |-> "metadata" \in join.listeners]
    /\ UNCHANGED <<compVars, now, sessVars, lastMessageTime, muteVars, messages,
                   joinedOnServer, reconVars>>

\* socket 'error'
socket_error(error) ==
    /\ LET r == [RoomState EXCEPT
                   !.registration = registrationErrorHandler(@, error)]
       IN SetRoomState(IF "error" \in join.listeners
                       THEN handleError(r, error) ELSE r)
    /\ emitted' = <<>>
    /\ lastCall' = [op |-> "error", error |-> error]
    /\ UNCHANGED <<compVars, now, sessVars, lastMessageTime, muteVars, messages,
                   joinedOnServer, reconVars>>

\* socket 'room:joined:confirm': the listeners of pending createRoom and
\* joinRoom calls run in the order they were registered.
room_joined_confirm(confirm) ==
    /\ LET viaCreate(r) == IF create.listener
                           THEN createHandleRoomJoined(r, confirm) ELSE r
           viaJoin(r) == IF "confirm" \in join.listeners
                         THEN joinHandleRoomJoined(r, confirm) ELSE r
       IN SetRoomState(IF join.active /\ join.afterCreate
                       THEN viaJoin(viaCreate(RoomState))
                       ELSE viaCreate(viaJoin(RoomState)))
    /\ emitted' = <<>>
    /\ lastCall' = [op |-> "room:joined:confirm", confirm |-> confirm,
                    heardByJoin |-> "confirm" \in join.listeners,
                    heardByCreate |-> create.listener]
    /\ UNCHANGED <<compVars, now, sessVars, lastMessageTime, muteVars, messages,
                   joinedOnServer, reconVars>>

\* The 300 ms timer handleRoomJoined of joinRoom starts
JoinGraceTimer ==
    /\ join.active
    /\ join.graceTimer = "pending"
    /\ SetRoomState(finishJoining([RoomState EXCEPT
                                     !.join.graceTimer = "fired"]))
    /\ emitted' = <<>>
    /\ lastCall' = Call("joinGraceTimer")
    /\ UNCHANGED <<compVars, now, sessVars, lastMessageTime, muteVars, messages,
                   joinedOnServer, reconVars>>

\* The 5 s timer of joinRoom
JoinTimeout ==
    /\ join.active
    /\ join.timeoutTimer = "pending"
    /\ LET r == [RoomState EXCEPT !.join.timeoutTimer = "fired"]
       IN SetRoomState(
            IF r.join.joinSuccess /\ ~r.join.metadataReceived
            THEN finishJoining(r)
            ELSE IF ~r.join.joinSuccess
                 THEN [r EXCEPT !.join = resolve(cleanupListeners(@), "false")]
                 ELSE r)
    /\ emitted' = <<>>
    /\ lastCall' = Call("joinTimeout")
    /\ UNCHANGED <<compVars, now, sessVars, lastMessageTime, muteVars, messages,
                   joinedOnServer, reconVars>>

\* leaveRoom() that keeps the room buffer
leaveRoom_KeepsMessages ==
    /\ IF currentRoom = NULL
       THEN /\ emitted' = <<>>
            /\ UNCHANGED <<currentRoom, join, joinedOnServer, registration>>
       ELSE /\ emitted' = <<Emit("leave", currentRoom.id)>>
            /\ currentRoom' = NULL
            /\ join' = OnCurrentRoomChange(join)
            /\ registration' = Prune(ErrorListenersOff(registration))
            /\ joinedOnServer' = joinedOnServer \ {currentRoom.id}
    /\ lastCall' = [op |-> "leaveRoom", wasIn |-> currentRoom]
    /\ UNCHANGED <<compVars, now, sessVars, lastMessageTime, muteVars, bufVars,
                   roomRegistry, create, reconVars>>

\* leaveRoom()
leaveRoom ==
    /\ IF currentRoom = NULL
       THEN /\ emitted' = <<>>
            /\ UNCHANGED <<currentRoom, roomMessages, roomMessagesSeen, join,
                           joinedOnServer, registration>>
       ELSE /\ emitted' = <<Emit("leave", currentRoom.id)>>
            /\ currentRoom' = NULL
            /\ roomMessages' = <<>>
            /\ roomMessagesSeen' = <<>>
            /\ join' = OnCurrentRoomChange(join)
            /\ registration' = Prune(ErrorListenersOff(registration))
            /\ joinedOnServer' = joinedOnServer \ {currentRoom.id}
    /\ lastCall' = [op |-> "leaveRoom", wasIn |-> currentRoom]
    /\ UNCHANGED <<compVars, now, sessVars, lastMessageTime, muteVars, messages,
                   roomRegistry, create, reconVars>>

-----------------------------------------------------------------------------
(* Message buffers and reactions (Index.tsx 1230-1310, 1400-1527) *)

\* Bounds on the number of inbound messages per buffer.
MaxGlobalLog == 1

MsgId(n) == [msg |-> n]

\* Payloads of 'chat_message' the server may send: with an id, and without.
ChatPayloads ==
    {[id |-> id, senderId |-> SocketId(0), senderUsername |-> "user_b",
      content |-> <<"h", "i">>, timestamp |-> StartTime] :
        id \in {MsgId(1), NULL}}

\* Payloads of 'room_message_broadcast' the server may send.
RoomPayloads ==
    {[id |-> id, roomId |-> roomId, username |-> "user_b",
      content |-> <<"h", "i">>, timestamp |-> StartTime] :
        id \in {MsgId(1), NULL}, roomId \in {CreatedId(1), RemoteId}}

\* socket 'chat_message' handler
chat_message(data) ==
    /\ Len(messages) < MaxGlobalLog
    /\ LET newMessage ==
             [id |-> IF data.id # NULL THEN data.id
                     ELSE [sender |-> data.senderId, at |-> data.timestamp],
              username |-> data.senderUsername, content |-> data.content,
              roomId |-> GLOBAL, isSystem |-> FALSE, replyTo |-> NULL,
              reactions |-> NoReactions]
       IN messages' = AppendSlice(messages, newMessage)
    /\ emitted' = <<>>
    /\ lastCall' = [op |-> "chat_message", data |-> data]
    /\ UNCHANGED <<registration, compVars, now, sessVars, lastMessageTime, muteVars, roomMessages,
                   roomMessagesSeen, roomVars, reconVars>>

\* msg => msg.id === id, for roomMessages.some and messages.find
HasId(buffer, id) == \E i \in 1..Len(buffer) : buffer[i].id = id

\* socket 'room_message_broadcast' handler.  Its closure holds the
\* roomMessages of the render in which currentRoom last changed.
room_message_broadcast(data) ==
    /\ Len(roomMessages) < MaxRoomLog
    /\ IF currentRoom # NULL /\ data.roomId = currentRoom.id
       THEN LET newMessage ==
                  [id |-> IF data.id # NULL THEN data.id
                          ELSE [room |-> data.timestamp],
                   username |-> data.username, content |-> data.content,
                   roomId |-> data.roomId, isSystem |-> FALSE,
                   replyTo |-> NULL, reactions |-> NoReactions]
                isDuplicate == HasId(roomMessagesSeen, newMessage.id)
            IN roomMessages' = IF ~isDuplicate
                               THEN AppendSlice(roomMessages, newMessage)
                               ELSE roomMessages
       ELSE UNCHANGED roomMessages
    /\ emitted' = <<>>
    /\ lastCall' = [op |-> "room_message_broadcast", data |-> data]
    /\ UNCHANGED <<registration, compVars, now, sessVars, lastMessageTime, muteVars, messages,
                   roomMessagesSeen, roomVars, reconVars>>

\* addSystemRoomMessage(content)
addSystemRoomMessage(content) ==
    /\ Len(roomMessages) < MaxRoomLog
    /\ roomMessages' =
         IF currentRoom = NULL THEN roomMessages
         ELSE AppendSlice(roomMessages, SystemMessage(content, currentRoom.id))
    /\ emitted' = <<>>
    /\ lastCall' = [op |-> "addSystemRoomMessage"]
    /\ UNCHANGED <<registration, compVars, now, sessVars, lastMessageTime, muteVars, messages,
                   roomMessagesSeen, roomVars, reconVars>>

\* existingReactions.includes(username)
Includes(list, username) == \E i \in 1..Len(list) : list[i] = username

\* History: does a message with this id list the username for this reaction
HasReacted(buffer, messageId, reactionType, username) ==
    \E i \in 1..Len(buffer) :
        /\ buffer[i].id = messageId
        /\ Includes(buffer[i].reactions[reactionType], username)

\* The state update of the 'message_reaction_broadcast' handler without its
\* includes check
broadcastAddReaction_NoIncludes(buffer, messageId, reactionType, username) ==
    [i \in 1..Len(buffer) |->
        IF buffer[i].id = messageId
        THEN [buffer[i] EXCEPT !.reactions[reactionType] = Append(@, username)]
        ELSE buffer[i]]

\* The state update of the 'message_reaction_broadcast' handler:
\* prevMessages.map(...)
broadcastAddReaction(buffer, messageId, reactionType, username) ==
    [i \in 1..Len(buffer) |->
        IF /\ buffer[i].id = messageId
           /\ ~Includes(buffer[i].reactions[reactionType], username)
        THEN [buffer[i] EXCEPT !.reactions[reactionType] = Append(@, username)]
        ELSE buffer[i]]

\* The state update of sendMessageReaction: prevMessages.map(...)
localAddReaction(buffer, messageId, reactionType, username) ==
    [i \in 1..Len(buffer) |->
        IF /\ buffer[i].id = messageId
           /\ ~Includes(buffer[i].reactions[reactionType], username)
        THEN [buffer[i] EXCEPT !.reactions[reactionType] = Append(@, username)]
        ELSE buffer[i]]

\* sendMessageReaction(messageId, reactionType, roomId); roomId may be
\* undefined
sendMessageReaction(messageId, reactionType, roomId) ==
    LET targetRoomId == IF roomId # NULL THEN roomId ELSE GLOBAL
        found == IF targetRoomId = GLOBAL THEN HasId(messages, messageId)
                 ELSE HasId(roomMessages, messageId)
        author == LET buffer == IF targetRoomId = GLOBAL THEN messages
                                ELSE roomMessages
                  IN buffer[CHOOSE i \in 1..Len(buffer) :
                               /\ buffer[i].id = messageId
                               /\ \A j \in 1..(i - 1) :
                                     buffer[j].id # messageId].username
    IN /\ IF currentUser = NULL \/ ~found
          THEN /\ emitted' = <<>>
               /\ UNCHANGED <<messages, roomMessages>>
          ELSE /\ emitted' =
                    <<Emit("message_reaction",
                           [messageId |-> messageId,
                            reactionType |-> reactionType,
                            username |-> currentUser.username,
                            messageAuthorUsername |-> author,
                            roomId |-> targetRoomId])>>
               /\ IF targetRoomId = GLOBAL
                  THEN /\ messages' =
                            localAddReaction(messages, messageId, reactionType,
                                             currentUser.username)
                       /\ UNCHANGED roomMessages
                  ELSE /\ roomMessages' =
                            localAddReaction(roomMessages, messageId,
                                             reactionType, currentUser.username)
                       /\ UNCHANGED messages
       /\ lastCall' = [op |-> "sendMessageReaction", messageId |-> messageId,
                       reactionType |-> reactionType,
                       targetRoomId |-> targetRoomId,
                       username |-> IF currentUser = NULL THEN NULL
                                    ELSE Str(currentUser.username),
                       found |-> currentUser # NULL /\ found,
                       already |->
                          /\ currentUser # NULL
                          /\ HasReacted(IF targetRoomId = GLOBAL THEN messages
                                        ELSE roomMessages,
                                        messageId, reactionType,
                                        currentUser.username)]
       /\ UNCHANGED <<registration, compVars, now, sessVars, lastMessageTime,
                      muteVars, roomMessagesSeen, roomVars, reconVars>>

\* socket 'message_reaction_broadcast' handler
message_reaction_broadcast(data) ==
    /\ IF data.roomId = GLOBAL
       THEN /\ messages' = broadcastAddReaction(messages, data.messageId,
                                                data.reactionType,
                                                data.username)
            /\ UNCHANGED roomMessages
       ELSE /\ roomMessages' = broadcastAddReaction(roomMessages,
                                                    data.messageId,
                                                    data.reactionType,
                                                    data.username)
            /\ UNCHANGED messages
    /\ emitted' = <<>>
    /\ lastCall' = [op |-> "message_reaction_broadcast",
                    messageId |-> data.messageId,
                    reactionType |-> data.reactionType,
                    targetRoomId |-> data.roomId,
                    username |-> Str(data.username),
                    found |-> IF data.roomId = GLOBAL
                              THEN HasId(messages, data.messageId)
                              ELSE HasId(roomMessages, data.messageId),
                    already |->
                       HasReacted(IF data.roomId = GLOBAL THEN messages
                                  ELSE roomMessages,
                                  data.messageId, data.reactionType,
                                  data.username)]
    /\ UNCHANGED <<registration, compVars, now, sessVars, lastMessageTime, muteVars, roomMessagesSeen,
                   roomVars, reconVars>>

-----------------------------------------------------------------------------
(* Reconnection: the provider of part_005 lines 129-1160 (183-292) *)

MAX_RECONNECT_ATTEMPTS == 5
reconnectionAttempts == 5
BackoffBaseMs == 1000
BackoffCapMs == 10000

RECURSIVE Pow2(_)
Pow2(n) == IF n = 0 THEN 1 ELSE 2 * Pow2(n - 1)

\* Math.min(a, b)
Min(a, b) == IF a < b THEN a ELSE b

\* The socket and the timers of the reconnect logic.  connected is
\* socket.connected; opening says that the socket.io manager has a connection
\* attempt under way or scheduled, and managerAttempts counts the attempts
\* of its current reconnection cycle that failed; timers is the number of
\* pending attemptReconnect timeouts.  The socket effect has no dependencies,
\* so its handlers read reconnectAttempts as it was at mount:
\* capturedAttempts.  delays lists the delays attemptReconnect has chosen
\* since the last 'connect'.
InitialReconnect ==
    [connected |-> FALSE, opening |-> TRUE, managerAttempts |-> 0,
     timers |-> 0, capturedAttempts |-> 0, delays |-> <<>>]

\* attemptReconnect of the 'disconnect' handler, reading `attempts` for
\* reconnectAttempts: the new isReconnecting, timers and delays
attemptReconnect(attempts, rc) ==
    IF attempts >= MAX_RECONNECT_ATTEMPTS
    THEN [isReconnecting |-> FALSE, timers |-> rc.timers, delays |-> rc.delays]
    ELSE LET delay == Min(BackoffBaseMs * Pow2(attempts), BackoffCapMs)
         IN [isReconnecting |-> TRUE, timers |-> rc.timers + 1,
             delays |-> Append(rc.delays, delay)]

\* socket 'connect' handler (part_005 195-224).  The handler reads
\* currentUser as it was at mount, null, so it registers and joins nothing.
connect_195 ==
    /\ reconnect.opening
    /\ ~reconnect.connected
    /\ connCount < MaxConnects
    /\ connCount' = connCount + 1
    /\ reconnect' = [reconnect EXCEPT !.connected = TRUE, !.opening = FALSE,
                                      !.managerAttempts = 0, !.delays = <<>>]
    /\ isConnected' = TRUE
    /\ isReconnecting' = FALSE
    /\ reconnectAttempts' = 0
    /\ emitted' = <<>>
    /\ lastCall' = Call("connect")
    /\ UNCHANGED <<registration, compVars, now, sessionStorage, currentUser, lastMessageTime, muteVars,
                   bufVars, roomVars>>

\* A connection attempt of the socket.io manager fails.  The manager tries
\* again until reconnectionAttempts attempts of the cycle have failed, and
\* then stops.  The provider has no 'connect_error' listener.
connect_error ==
    /\ reconnect.opening
    /\ ~reconnect.connected
    /\ reconnect' =
         IF reconnect.managerAttempts < reconnectionAttempts
         THEN [reconnect EXCEPT !.managerAttempts = @ + 1]
         ELSE [reconnect EXCEPT !.opening = FALSE, !.managerAttempts = 0]
    /\ emitted' = <<>>
    /\ lastCall' = Call("connect_error")
    /\ UNCHANGED <<registration, compVars, now, sessVars, lastMessageTime, muteVars, bufVars, roomVars,
                   reconnectAttempts, isReconnecting>>

\* socket 'disconnect' handler (part_005 226-258).  After a disconnect the
\* server asked for the manager does not reconnect by itself; after the
\* other ones it does.
disconnect_226(reason) ==
    /\ reconnect.connected
    /\ isConnected' = FALSE
    /\ LET rc == [reconnect EXCEPT
                    !.connected = FALSE,
                    !.opening = reason # "io server disconnect",
                    !.managerAttempts = 0]
       IN IF reason \in {"io server disconnect", "transport close",
                         "ping timeout"}
          THEN LET a == attemptReconnect(reconnect.capturedAttempts, rc)
               IN /\ isReconnecting' = a.isReconnecting
                  /\ reconnect' = [rc EXCEPT !.timers = a.timers,
                                             !.delays = a.delays]
          ELSE /\ reconnect' = rc
               /\ UNCHANGED isReconnecting
    /\ emitted' = <<>>
    /\ lastCall' = [op |-> "disconnect", reason |-> reason]
    /\ UNCHANGED <<registration, compVars, now, sessionStorage, connCount, currentUser,
                   lastMessageTime, muteVars, bufVars, roomVars,
                   reconnectAttempts>>

\* The timeout attemptReconnect set (part_005 246-251): newSocket.connect()
\* starts a connection attempt unless the manager has one under way.
reconnectTimer_246 ==
    /\ reconnect.timers > 0
    /\ IF ~reconnect.connected
       THEN /\ reconnectAttempts' = reconnectAttempts + 1
            /\ reconnect' =
                 IF reconnect.opening
                 THEN [reconnect EXCEPT !.timers = @ - 1]
                 ELSE [reconnect EXCEPT !.timers = @ - 1, !.opening = TRUE,
                                        !.managerAttempts = 0]
       ELSE /\ reconnect' = [reconnect EXCEPT !.timers = @ - 1]
            /\ UNCHANGED reconnectAttempts
    /\ emitted' = <<>>
    /\ lastCall' = Call("reconnectTimer")
    /\ UNCHANGED <<registration, compVars, now, sessVars, lastMessageTime, muteVars, bufVars, roomVars,
                   isReconnecting>>

-----------------------------------------------------------------------------
(* Specifications *)

Init ==
    /\ now = StartTime
    /\ sessionStorage = [k \in StorageKeys |-> NULL]
    /\ isConnected = FALSE
    /\ connCount = 0
    /\ currentUser = NULL
    /\ lastMessageTime = 0
    /\ muteInfo = NULL
    /\ muteInfoRef = NULL
    /\ isMuted = FALSE
    /\ muteTimeRemaining = 0
    /\ updateTimeoutRef = FALSE
    /\ messages = <<>>
    /\ roomMessages = <<>>
    /\ roomMessagesSeen = <<>>
    /\ currentRoom = NULL
    /\ roomRegistry = <<>>
    /\ create = NoCreate
    /\ join = NoJoin
    /\ reconnectAttempts = 0
    /\ isReconnecting = FALSE
    /\ reconnect = InitialReconnect
    /\ registration = NoRegistration
    /\ typing = NoTyping
    /\ hack = NoHack
    /\ thread = NoThread
    /\ monitor = NoMonitor
    /\ joinedOnServer = {}
    /\ emitted = <<>>
    /\ lastCall = Call("mount")

\* Sending, muting and the clock.
NextSend ==
    \/ SocketConnect
    \/ createUser("user_a", "#39ff14", "identity_1")
    \/ \E d \in TimeSteps : Advance(d)
    \/ user_muted(MESSAGE_COOLDOWN, now + MESSAGE_COOLDOWN, "user_a")
    \/ \E u \in Usernames : user_unmuted(u)
    \/ MuteTick
    \/ \E content \in Bodies : sendMessage(content)
    \/ \E content \in Bodies : sendRoomMessage(content)
    \/ \E name \in RoomNames, theme \in RoomThemes : createRoom(name, theme)
    \/ \E success \in BOOLEAN :
          room_joined_confirm([success |-> success, roomId |-> CreatedId(1)])

SpecSend == Init /\ [][NextSend]_vars

-----------------------------------------------------------------------------
(* Properties of sending *)

\* The conditions on a message body, in the words of the description:
\* non-empty after trimming and at most 1000 characters.
BodyAcceptable(content) ==
    /\ Len(Trim(content)) > 0
    /\ Len(content) <= MaxContentLength

\* The user is not muted: no mute stored, or now >= muteUntil.
NotMuted == muteInfo = NULL \/ now >= muteInfo.muteUntil

\* The cooldown window has elapsed since the accepted send at time last.
CooldownElapsed(last) == now - last >= MESSAGE_COOLDOWN

\* C1, as stated: sendMessage(B) returns true if and only if B is non-empty
\* after trimming, has at most 1000 characters, the user is not muted and
\* the cooldown has elapsed since the last accepted send.
C1_AcceptedIffBodyMuteCooldown ==
    lastCall.op = "sendMessage" =>
        (lastCall.result <=>
            /\ BodyAcceptable(lastCall.content)
            /\ NotMuted
            /\ CooldownElapsed(lastCall.lastMessageTime))

\* C1, amended: sendMessage(B) returns true if and only if a local identity
\* exists, B is non-empty after trimming, has at most 1000 characters, the
\* user is not muted and the cooldown has elapsed since the last accepted
\* send.
C1_AcceptedIffIdentityBodyMuteCooldown ==
    lastCall.op = "sendMessage" =>
        (lastCall.result <=>
            /\ currentUser # NULL
            /\ BodyAcceptable(lastCall.content)
            /\ NotMuted
            /\ CooldownElapsed(lastCall.lastMessageTime))

\* A second send is accepted once the cooldown is over, while an expired
\* mute is still stored.
C1_Witness ==
    /\ lastCall.op = "sendMessage"
    /\ lastCall.result
    /\ lastCall.lastMessageTime > 0
    /\ muteInfo # NULL

\* C2, as stated: neither sendMessage nor sendRoomMessage emits
\* 'chat_message' / 'room_message' while the user is muted, while the
\* cooldown is active, without a local identity, or with a body that is
\* empty, only whitespace or longer than 1000 characters.
C2_NoRejectedMessageIsEmitted ==
    (Emits("chat_message") \/ Emits("room_message")) =>
        /\ currentUser # NULL
        /\ BodyAcceptable(lastCall.content)
        /\ NotMuted
        /\ CooldownElapsed(lastCall.lastMessageTime)

-----------------------------------------------------------------------------
(* Reactions *)

\* The messages the user reacts to, and the payloads of
\* 'message_reaction_broadcast' the server may send.
ReactTargets == {MsgId(1), [system |-> StartTime]}

ReactionPayloads ==
    [messageId : ReactTargets, reactionType : ReactionKinds,
     username : Usernames, roomId : {GLOBAL, CreatedId(1)}]

NextReact ==
    \/ SocketConnect
    \/ createUser("user_a", "#39ff14", "identity_1")
    \/ \E name \in RoomNames, theme \in RoomThemes : createRoom(name, theme)
    \/ room_joined_confirm([success |-> TRUE, roomId |-> CreatedId(1)])
    \/ \E data \in ChatPayloads : chat_message(data)
    \/ \E data \in RoomPayloads : room_message_broadcast(data)
    \/ \E messageId \in ReactTargets, reactionType \in ReactionKinds,
          roomId \in {NULL, CreatedId(1)} :
          sendMessageReaction(messageId, reactionType, roomId)
    \/ \E data \in ReactionPayloads : message_reaction_broadcast(data)

SpecReact == Init /\ [][NextReact]_vars

\* How often a username occurs in a reaction list
Count(list, username) ==
    Cardinality({i \in 1..Len(list) : list[i] = username})

DuplicateFree(buffer) ==
    \A i \in 1..Len(buffer), kind \in ReactionKinds, username \in Usernames :
        Count(buffer[i].reactions[kind], username) <= 1

\* C5, as stated: after a sendMessageReaction call or a
\* 'message_reaction_broadcast' event for a message id, kind and username,
\* the username occurs exactly once in the list for that kind of the
\* message with that id, in the global buffer or the room buffer, whichever
\* holds the message.
C5_ExactlyOnceInHoldingBuffer ==
    (/\ lastCall.op \in {"sendMessageReaction", "message_reaction_broadcast"}
     /\ lastCall.username # NULL)
    => \A buffer \in {messages, roomMessages} :
          \A i \in 1..Len(buffer) :
             buffer[i].id = lastCall.messageId =>
                Count(buffer[i].reactions[lastCall.reactionType],
                      lastCall.username.str) = 1

\* C5, amended: no reaction list of a message in the global or the room
\* buffer names a user twice, and after a sendMessageReaction call or a
\* 'message_reaction_broadcast' event that found its message in the buffer it
\* addresses (the global buffer when its roomId is absent or 'global', the
\* room buffer otherwise), the username of the reaction occurs exactly once
\* in the list for the reaction's kind of every message with that id in that
\* buffer.
C5_ReactionListsDuplicateFree ==
    /\ DuplicateFree(messages)
    /\ DuplicateFree(roomMessages)
    /\ (/\ lastCall.op \in {"sendMessageReaction", "message_reaction_broadcast"}
        /\ lastCall.found)
       => LET buffer == IF lastCall.targetRoomId = GLOBAL THEN messages
                        ELSE roomMessages
          IN \A i \in 1..Len(buffer) :
                buffer[i].id = lastCall.messageId =>
                   Count(buffer[i].reactions[lastCall.reactionType],
                         lastCall.username.str) = 1

\* The broadcast of a reaction arrives for a message in the room buffer that
\* already lists the user for that reaction.
C5_Witness ==
    /\ lastCall.op = "message_reaction_broadcast"
    /\ lastCall.found
    /\ lastCall.already
    /\ lastCall.targetRoomId # GLOBAL
    /\ currentUser # NULL
    /\ lastCall.username = Str(currentUser.username)

-----------------------------------------------------------------------------
(* Identity across reloads and reconnects *)

NextSession ==
    \/ SocketConnect
    \/ \E reason \in DisconnectReasons : SocketDisconnect(reason)
    \/ \E username \in Usernames, color \in Colors, identity \in Identities :
          createUser(username, color, identity)
    \/ handleVisibilityChange
    \/ PageReload

SpecSession == Init /\ [][NextSession]_vars

\* C4, as stated: after a page reload the persisted identity is never
\* restored.  currentUser is null after the reload (and at the first mount),
\* and for every later sequence of socket connect and disconnect events it
\* stays null until createUser is called: no step other than a createUser
\* call takes currentUser from null to a user.
C4_IdentityNotRestoredAfterReload ==
    [][(currentUser = NULL /\ lastCall'.op # "createUser")
          => currentUser' = NULL]_vars

-----------------------------------------------------------------------------
(* The provider of part_005 lines 1257-1530: inbound messages *)

\* Bound on the number of 'chat_message' events delivered to that provider.
MaxDelivered == 101

\* socket 'registration_success' handler (part_005 1435-1438)
registration_success_1435(username, color) ==
    /\ isConnected' = TRUE
    /\ currentUser' = [id |-> SocketId(connCount), username |-> username,
                       color |-> color]
    /\ emitted' = <<>>
    /\ lastCall' = Call("registration_success")
    /\ UNCHANGED <<registration, compVars, now, sessionStorage, connCount, lastMessageTime, muteVars,
                   bufVars, roomVars, reconVars>>

\* socket 'chat_message' handler (part_005 1445-1447); the server numbers
\* the messages it delivers
chat_message_1445(content) ==
    /\ Len(messages) < MaxDelivered
    /\ LET message == [id |-> MsgId(Len(messages) + 1), username |-> "user_b",
                       content |-> content]
       IN messages' = messages \o <<message>>
    /\ emitted' = <<>>
    /\ lastCall' = Call("chat_message")
    /\ UNCHANGED <<registration, compVars, now, sessVars, lastMessageTime, muteVars, roomMessages,
                   roomMessagesSeen, roomVars, reconVars>>

NextInbound1445 ==
    \/ \E username \in Usernames, color \in Colors :
          registration_success_1435(username, color)
    \/ chat_message_1445(<<"h", "i">>)

SpecInbound1445 == Init /\ [][NextInbound1445]_vars

\* C3, as stated: after every inbound 'chat_message' and
\* 'room_message_broadcast' event and every locally synthesized system
\* message, the global buffer and the room buffer each hold at most 100
\* entries; an append to a full buffer removes exactly the oldest entry and
\* keeps the others in their order, with the new message last.
C3_BuffersBoundedFifo ==
    [][/\ Len(messages') <= MAX_MESSAGES
       /\ Len(roomMessages') <= MAX_MESSAGES
       /\ (lastCall'.op = "chat_message" /\ Len(messages) = MAX_MESSAGES)
          => /\ Len(messages') = MAX_MESSAGES
             /\ \A i \in 1..(MAX_MESSAGES - 1) : messages'[i] = messages[i + 1]
       /\ (/\ lastCall'.op \in {"room_message_broadcast",
                                "addSystemRoomMessage"}
           /\ roomMessages' # roomMessages
           /\ Len(roomMessages) = MAX_MESSAGES)
          => /\ Len(roomMessages') = MAX_MESSAGES
             /\ \A i \in 1..(MAX_MESSAGES - 1) :
                   roomMessages'[i] = roomMessages[i + 1]]_vars

-----------------------------------------------------------------------------
(* Mute expiry *)

\* Muting with the clock moving in steps of one tick.  The interval timer
\* fires as long as it is scheduled and time passes, so both MuteTick and
\* the clock step are weakly fair.
NextMute ==
    \/ SocketConnect
    \/ createUser("user_a", "#39ff14", "identity_1")
    \/ Advance(MuteTickMs)
    \/ user_muted(MESSAGE_COOLDOWN, now + MESSAGE_COOLDOWN, "user_a")
    \/ \E u \in Usernames : user_unmuted(u)
    \/ MuteTick
    \/ sendMessage(<<" ", "h", "i", " ", "@", "b", "o", "b">>)

SpecMute ==
    /\ Init
    /\ [][NextMute]_vars
    /\ WF_vars(MuteTick)
    /\ WF_vars(Advance(MuteTickMs))

MuteCleared == ~isMuted /\ muteInfo = NULL /\ muteTimeRemaining = 0

\* C6: mute auto-expiry.  Once a 'user_muted' notice with muteUntil = T is
\* stored, the mute is eventually cleared (isMuted false, muteInfo null,
\* muteTimeRemaining 0, so that sendMessage no longer rejects for being
\* muted); every tick of the 1 s interval at a time now >= T clears it, and
\* a tick before T does not.
C6_MuteExpiresByTick ==
    /\ (muteInfo # NULL) ~> (MuteCleared /\ ~MutedNow)
    /\ [][lastCall'.op = "muteTick" =>
            IF now >= muteInfoRef.muteUntil
            THEN MuteCleared' /\ ~MutedNow'
            ELSE muteInfo' = muteInfo /\ isMuted' = isMuted]_vars

\* The tick at muteUntil has cleared a mute.
C6_Witness ==
    /\ lastCall.op = "muteTick"
    /\ MuteCleared
    /\ now >= StartTime + MESSAGE_COOLDOWN

-----------------------------------------------------------------------------
(* Rooms *)

NextRoom ==
    \/ SocketConnect
    \/ createUser("user_a", "#39ff14", "identity_1")
    \/ \E name \in RoomNames, theme \in RoomThemes : createRoom(name, theme)
    \/ CreateTimeout
    \/ \E code \in CodeInputs : joinRoom(code)
    \/ \E metadata \in MetadataPayloads :
          Len(roomMessages) < MaxRoomLog /\ room_metadata_update(metadata)
    \/ \E error \in ErrorPayloads : socket_error(error)
    \/ \E confirm \in ConfirmPayloads : room_joined_confirm(confirm)
    \/ JoinGraceTimer
    \/ JoinTimeout
    \/ leaveRoom

SpecRoom == Init /\ [][NextRoom]_vars

\* C7, as stated: in a joinRoom call for a code that is not cached, when the
\* call has received the successful 'room:joined:confirm' for the room id it
\* requested and no metadata has arrived, the join is finalized once the
\* 300 ms grace timer has fired: currentRoom is the placeholder room with its
\* default name 'Room <CODE>' and theme 'terminal', and the promise is
\* resolved true.
C7_FinalizedAfterGraceWithDefaults ==
    (/\ lastCall.op = "joinGraceTimer"
     /\ ~join.existingRoom
     /\ join.joinSuccess
     /\ ~join.metadataArrived)
    => /\ currentRoom = PlaceholderRoom(join.code)
       /\ join.promise = "true"

\* C8, as stated: in joinRoom, metadata that arrives before the join
\* confirmation does not complete the join (finishJoining has not run and
\* the promise is pending), and when the successful 'room:joined:confirm'
\* for the room id that joinRoom requested then arrives, the join completes:
\* the promise is resolved true and currentRoom carries the received name,
\* theme and admin.
C8_MetadataFirstCompletesOnConfirm ==
    /\ (/\ lastCall.op = "room:metadata_update"
        /\ lastCall.heardByJoin
        /\ join.metadataReceived
        /\ ~join.joinSuccess)
       => (join.finishCount = 0 /\ join.promise = "pending")
    /\ (/\ lastCall.op = "room:joined:confirm"
        /\ lastCall.heardByJoin
        /\ lastCall.confirm.success
        /\ lastCall.confirm.roomId = join.requestedId
        /\ join.metadataReceived)
       => /\ join.promise = "true"
          /\ currentRoom # NULL
          /\ currentRoom.name = join.roomToJoin.name
          /\ currentRoom.theme = join.roomToJoin.theme
          /\ currentRoom.adminId = join.roomToJoin.adminId

\* C9, as stated: the set of room ids for which the client has emitted
\* 'join' and not yet emitted 'leave' has at most one element, and it equals
\* {currentRoom.id} when currentRoom is set.
C9_AtMostOneRoomJoined ==
    /\ Cardinality(joinedOnServer) <= 1
    /\ currentRoom # NULL => joinedOnServer = {currentRoom.id}

-----------------------------------------------------------------------------
(* Reconnection *)

NextReconnect ==
    \/ connect_195
    \/ connect_error
    \/ \E reason \in DisconnectReasons : disconnect_226(reason)
    \/ reconnectTimer_246

SpecReconnect == Init /\ [][NextReconnect]_vars

\* No further connection attempt will be made: the socket is not connected,
\* no attemptReconnect timeout is pending and the manager has no attempt
\* under way.
ReconnectQuiescent ==
    /\ ~reconnect.connected
    /\ reconnect.timers = 0
    /\ ~reconnect.opening

\* C10, as stated: the delays of successive reconnect attempts are
\* monotonically non-decreasing and never exceed the 10 s cap, and once the
\* attempts are exhausted without success the controller has given up with
\* isReconnecting = false and isConnected = false; it is never left stuck in
\* the reconnecting state.
C10_BackoffBoundedAndGivesUp ==
    /\ \A i \in 1..Len(reconnect.delays) :
          /\ reconnect.delays[i] <= BackoffCapMs
          /\ \A j \in 1..(i - 1) : reconnect.delays[j] <= reconnect.delays[i]
    /\ ReconnectQuiescent => (~isReconnecting /\ ~isConnected)

-----------------------------------------------------------------------------
(* Recovery interval (part_005 295-306) and C11 *)

\* createUser() of the provider of part_005 lines 129-1160
createUser_323(username, color) ==
    /\ IF ~isConnected
       THEN /\ emitted' = <<>>
            /\ lastCall' = [op |-> "createUser", created |-> FALSE]
            /\ UNCHANGED currentUser
       ELSE LET user == [id |-> SocketId(connCount), username |-> username,
                         color |-> color]
            IN /\ emitted' = <<Emit("register", [username |-> user.username,
                                                 color |-> user.color])>>
               /\ currentUser' = user
               /\ lastCall' = [op |-> "createUser", created |-> TRUE]
    /\ UNCHANGED <<registration, compVars, now, sessionStorage, isConnected, connCount,
                   lastMessageTime, muteVars, bufVars, roomVars, reconVars>>

\* The effect of part_005 295-306 has its interval running in these states.
CheckConnectionRunning ==
    /\ ~isConnected
    /\ currentUser # NULL
    /\ ~isReconnecting

\* A tick of the checkConnection interval (every 5000 ms): socket.connect()
\* starts a connection attempt unless the manager has one under way.
checkConnection_299 ==
    /\ CheckConnectionRunning
    /\ IF ~reconnect.connected
       THEN /\ reconnect' =
                 IF reconnect.opening
                 THEN reconnect
                 ELSE [reconnect EXCEPT !.opening = TRUE,
                                        !.managerAttempts = 0]
            /\ lastCall' = [op |-> "checkConnection", connect |-> TRUE]
       ELSE /\ UNCHANGED reconnect
            /\ lastCall' = [op |-> "checkConnection", connect |-> FALSE]
    /\ emitted' = <<>>
    /\ UNCHANGED <<registration, compVars, now, sessVars, lastMessageTime, muteVars, bufVars, roomVars,
                   reconnectAttempts, isReconnecting>>

NextRecovery ==
    \/ connect_195
    \/ connect_error
    \/ \E reason \in DisconnectReasons : disconnect_226(reason)
    \/ reconnectTimer_246
    \/ \E username \in Usernames : createUser_323(username, "#39ff14")
    \/ checkConnection_299

SpecRecovery == Init /\ [][NextRecovery]_vars

\* C11, as stated: once the reconnect attempts are exhausted (the socket is
\* not connected and neither a reconnect timeout nor a connection attempt of
\* the manager is left), the controller stays disconnected and calls
\* socket.connect() no more: no step starts a connection attempt or connects.
C11_NoAttemptAfterExhaustion ==
    [][ReconnectQuiescent =>
         /\ ~isConnected'
         /\ ~reconnect'.opening
         /\ (lastCall'.op = "checkConnection" => ~lastCall'.connect)]_vars

-----------------------------------------------------------------------------
(* Re-registration on reconnect *)

\* The last task emitted a registration for this username and color.
Registered(username, color) ==
    \E i \in 1..Len(emitted) :
       /\ emitted[i].event \in {"register", "register_user"}
       /\ emitted[i].payload.username = username
       /\ emitted[i].payload.color = color

\* C12, as stated: a 'connect' event that follows a disconnect while a local
\* identity exists emits a registration with the same username and color and
\* rebinds currentUser.id to the id of the new connection's socket.
C12_ReconnectReRegisters ==
    [][(lastCall'.op = "connect" /\ connCount >= 1 /\ currentUser # NULL)
          => /\ currentUser' # NULL
             /\ currentUser'.id = SocketId(connCount')
             /\ Registered(currentUser.username, currentUser.color)']_vars

-----------------------------------------------------------------------------
(* Rooms across a reconnect (Index.tsx) *)

NextRejoin ==
    \/ SocketConnect
    \/ \E reason \in DisconnectReasons : SocketDisconnect(reason)
    \/ createUser("user_a", "#39ff14", "identity_1")
    \/ \E name \in RoomNames, theme \in RoomThemes : createRoom(name, theme)
    \/ CreateTimeout
    \/ \E confirm \in ConfirmPayloads :
          isConnected /\ room_joined_confirm(confirm)
    \/ leaveRoom

SpecRejoin == Init /\ [][NextRejoin]_vars

\* C13, as stated: a 'connect' event that follows a disconnect while
\* currentRoom is not null emits 'join' for currentRoom.id.
C13_ReconnectRejoinsRoom ==
    [][(lastCall'.op = "connect" /\ connCount >= 1 /\ currentRoom # NULL)
          => \E i \in 1..Len(emitted') :
                emitted'[i] = Emit("join", currentRoom.id)]_vars

-----------------------------------------------------------------------------
(* Cooldown *)

\* C14: an accepted sendMessage comes at least MESSAGE_COOLDOWN after the
\* accepted one before it and starts the cooldown; a rejected call, and
\* every other task, leaves the time of the last accepted send as it was;
\* and once MESSAGE_COOLDOWN has passed since the last accepted send, a send
\* with a valid body by an unmuted user is accepted.
C14_CooldownBetweenAcceptedSends ==
    [][IF lastCall'.op = "sendMessage"
       THEN /\ lastCall'.result =>
                 /\ lastMessageTime > 0 =>
                       now' - lastMessageTime >= MESSAGE_COOLDOWN
                 /\ lastMessageTime' = now'
            /\ ~lastCall'.result => lastMessageTime' = lastMessageTime
            /\ (/\ currentUser # NULL
                /\ NotMuted
                /\ BodyAcceptable(lastCall'.content)
                /\ now >= lastMessageTime + MESSAGE_COOLDOWN)
               => lastCall'.result
       ELSE lastMessageTime' = lastMessageTime]_vars

\* A send is accepted when the cooldown of an earlier accepted send is over.
C14_Witness ==
    /\ lastCall.op = "sendMessage"
    /\ lastCall.result
    /\ lastCall.lastMessageTime >= StartTime
    /\ now >= lastCall.lastMessageTime + MESSAGE_COOLDOWN
    /\ muteInfo = NULL

-----------------------------------------------------------------------------
(* Deduplication of room broadcasts *)

\* C15, as stated: a 'room_message_broadcast' event whose id is the id of a
\* message already in roomMessages leaves roomMessages unchanged, so
\* roomMessages never holds two broadcast messages with the same id.
C15_RoomBroadcastsDeduplicatedById ==
    \A i, j \in 1..Len(roomMessages) :
       (/\ i # j
        /\ ~roomMessages[i].isSystem
        /\ ~roomMessages[j].isSystem)
       => roomMessages[i].id # roomMessages[j].id

-----------------------------------------------------------------------------
(* createRoom *)

\* C16: a successful 'room:joined:confirm' for the generated room id that
\* arrives while the 5 s timer of createRoom is pending resolves the promise
\* with the created room, removes the listener and makes it currentRoom; the
\* timer rejects a promise that is still pending and removes the listener;
\* the call itself, any other confirmation and the timer leave currentRoom
\* and roomMessages as they are.
C16_CreateResolvesOrTimesOut ==
    [][/\ (/\ lastCall'.op = "room:joined:confirm"
           /\ create.active
           /\ create.timer = "pending"
           /\ create.promise = "pending"
           /\ lastCall'.confirm.success
           /\ lastCall'.confirm.roomId = create.room.id)
          => /\ create'.promise = "resolved"
             /\ ~create'.listener
             /\ currentRoom' = create'.room
       /\ (/\ lastCall'.op = "room:joined:confirm"
           /\ lastCall'.heardByCreate
           /\ ~lastCall'.heardByJoin
           /\ ~(/\ lastCall'.confirm.success
                /\ lastCall'.confirm.roomId = create.room.id))
          => /\ create' = create
             /\ currentRoom' = currentRoom
             /\ roomMessages' = roomMessages
       /\ lastCall'.op = "createTimeout"
          => /\ create.promise = "pending" => create'.promise = "rejected"
             /\ create.promise # "pending" => create'.promise = create.promise
             /\ ~create'.listener
             /\ currentRoom' = currentRoom
             /\ roomMessages' = roomMessages
       /\ lastCall'.op = "createRoom"
          => /\ currentRoom' = currentRoom
             /\ roomMessages' = roomMessages]_vars

\* The 5 s timer of a createRoom call fires after the call was confirmed.
C16_Witness ==
    /\ lastCall.op = "createTimeout"
    /\ create.promise = "resolved"
    /\ currentRoom = create.room

-----------------------------------------------------------------------------
(* joinRoom: failure, normalization, cache *)

\* C17, as stated: when a joinRoom call reports failure (here: by the first
\* event after the call, so that nothing else has touched the state), every
\* listener it registered is removed and currentRoom, roomMessages and the
\* room registry are as they were before the call.
C17_FailedJoinLeavesStateAsBefore ==
    [][(/\ lastCall.op = "joinRoom"
        /\ lastCall.result = "promise"
        /\ join'.promise = "false")
       => /\ join'.listeners = {}
          /\ currentRoom' = currentRoom
          /\ roomMessages' = roomMessages
          /\ roomRegistry' = lastCall.registryBefore]_vars

-----------------------------------------------------------------------------
(* Sending and receiving *)

EchoBodies == {<<>>, <<"h", "i">>}

NextEcho ==
    \/ SocketConnect
    \/ createUser("user_a", "#39ff14", "identity_1")
    \/ \E name \in RoomNames, theme \in RoomThemes : createRoom(name, theme)
    \/ room_joined_confirm([success |-> TRUE, roomId |-> CreatedId(1)])
    \/ \E content \in EchoBodies : sendMessage(content)
    \/ \E content \in EchoBodies : sendRoomMessage(content)
    \/ \E data \in ChatPayloads : chat_message(data)
    \/ \E data \in RoomPayloads : room_message_broadcast(data)
    \/ leaveRoom

SpecEcho == Init /\ [][NextEcho]_vars

\* The messages of a buffer that are not system messages
UserMessages(buffer) == SelectSeq(buffer, LAMBDA msg : ~msg.isSystem)

\* C18: sendMessage and sendRoomMessage, accepted or not, leave messages and
\* roomMessages unchanged; the global buffer changes only in a
\* 'chat_message' task, and the user messages of the room buffer change only
\* in a 'room_message_broadcast' task or when the buffer is reset on
\* entering or leaving a room.
C18_NoLocalEcho ==
    [][/\ lastCall'.op \in {"sendMessage", "sendRoomMessage"}
          => /\ messages' = messages
             /\ roomMessages' = roomMessages
       /\ messages' # messages => lastCall'.op = "chat_message"
       /\ UserMessages(roomMessages') # UserMessages(roomMessages)
          => \/ lastCall'.op = "room_message_broadcast"
             \/ UserMessages(roomMessages') = <<>>]_vars

\* A room message was sent and accepted while the room buffer held a message
\* the server delivered.
C18_Witness ==
    /\ lastCall.op = "sendRoomMessage"
    /\ lastCall.result
    /\ Emits("room_message")
    /\ UserMessages(roomMessages) # <<>>

\* A code as typed, paired with the same code in upper case.
JoinCasePairs ==
    { << <<"a", "b", "c", "d", "e">>, <<"A", "B", "C", "D", "E">> >>,
      << <<"a", "B", "c", "D", "e">>, <<"A", "B", "C", "D", "E">> >>,
      << <<"v", "w", "x", "y", "z", "0", "0", "1">>,
         <<"V", "W", "X", "Y", "Z", "0", "0", "1">> >> }

JoinCaseInputs == {pair[1] : pair \in JoinCasePairs}
                     \cup {pair[2] : pair \in JoinCasePairs}

\* The registry key joinRoom(code) looks up
joinLookupKey(code) == CodeKey(toUpperCase(code))

\* The id of the room joinRoom(code) asks to join, given the registry
joinRoomId(reg, code) ==
    LET existingRoom == RegGet(reg, joinLookupKey(code))
    IN IF existingRoom # NULL THEN existingRoom.id
       ELSE PlaceholderId(toUpperCase(code))

\* What joinRoom(code) emits, given the registry
joinEmits(reg, code) ==
    <<Emit("join", joinRoomId(reg, code)),
      Emit("room:request_metadata", [roomCode |-> toUpperCase(code)])>>

NextJoinCase ==
    \/ SocketConnect
    \/ createUser("user_a", "#39ff14", "identity_1")
    \/ \E name \in RoomNames, theme \in RoomThemes : createRoom(name, theme)
    \/ CreateTimeout
    \/ \E code \in JoinCaseInputs : joinRoom(code)
    \/ \E confirm \in ConfirmPayloads : room_joined_confirm(confirm)
    \/ JoinGraceTimer
    \/ JoinTimeout
    \/ leaveRoom

SpecJoinCase == Init /\ [][NextJoinCase]_vars

\* C19: for a code and the same code in upper case, joinRoom looks up the
\* same registry key, and from the same registry emits 'join' for the same
\* room id and 'room:request_metadata' for the same code; every joinRoom
\* call with either code emits exactly that, remembers the upper-case code
\* and leaves a registry entry under the upper-case key.
C19_JoinIsCaseInsensitive ==
    [][\A pair \in JoinCasePairs :
          /\ joinLookupKey(pair[1]) = joinLookupKey(pair[2])
          /\ joinLookupKey(pair[1]) = CodeKey(pair[2])
          /\ joinEmits(roomRegistry, pair[1]) = joinEmits(roomRegistry, pair[2])
          /\ (/\ lastCall'.op = "joinRoom"
              /\ lastCall'.result = "promise"
              /\ lastCall'.code \in {pair[1], pair[2]})
             => /\ emitted' = joinEmits(roomRegistry, pair[2])
                /\ join'.code = pair[2]
                /\ RegGet(roomRegistry', CodeKey(pair[2])) # NULL]_vars

\* joinRoom was called with a mixed-case code.
C19_Witness ==
    /\ lastCall.op = "joinRoom"
    /\ lastCall.result = "promise"
    /\ lastCall.code = <<"a", "B", "c", "D", "e">>
    /\ Emits("join")

\* C20, as stated: when joinRoom finds the normalized code in the room
\* registry it emits no 'room:request_metadata'; the request is sent only
\* for codes that are not cached.
C20_NoMetadataRequestWhenCached ==
    (/\ lastCall.op = "joinRoom"
     /\ lastCall.result = "promise"
     /\ Emits("room:request_metadata"))
    => ~join.existingRoom

-----------------------------------------------------------------------------
(* leaveRoom *)

NextLeave ==
    \/ SocketConnect
    \/ createUser("user_a", "#39ff14", "identity_1")
    \/ \E name \in RoomNames, theme \in RoomThemes : createRoom(name, theme)
    \/ room_joined_confirm([success |-> TRUE, roomId |-> CreatedId(1)])
    \/ user_muted(MESSAGE_COOLDOWN, now + MESSAGE_COOLDOWN, "user_a")
    \/ \E data \in ChatPayloads : chat_message(data)
    \/ \E data \in RoomPayloads : room_message_broadcast(data)
    \/ leaveRoom

SpecLeave == Init /\ [][NextLeave]_vars

\* C21: leaveRoom() in a room emits 'leave' with the id of the current room
\* and nothing else, sets currentRoom to null and roomMessages to empty, and
\* leaves the global buffer, the identity and the mute state unchanged;
\* outside a room it emits nothing and changes no state.
C21_LeaveRoomClearsRoomStateOnly ==
    [][lastCall'.op = "leaveRoom" =>
         IF currentRoom # NULL
         THEN /\ emitted' = <<Emit("leave", currentRoom.id)>>
              /\ currentRoom' = NULL
              /\ roomMessages' = <<>>
              /\ messages' = messages
              /\ UNCHANGED <<sessVars, muteVars, lastMessageTime>>
         ELSE /\ emitted' = <<>>
              /\ UNCHANGED <<now, sessVars, lastMessageTime, muteVars, bufVars,
                             roomVars, reconVars, registration, compVars>>]_vars

\* leaveRoom() was called in a room whose buffer held messages, with a
\* global message received and a mute stored.
C21_Witness ==
    /\ lastCall.op = "leaveRoom"
    /\ lastCall.wasIn # NULL
    /\ currentRoom = NULL
    /\ messages # <<>>
    /\ muteInfo # NULL

-----------------------------------------------------------------------------
(* Registration retry (Index.tsx 498-553) *)

\* The 1 s timer of a call that emits 'ping'
RegistrationPingTimer(i) ==
    /\ i \in 1..Len(registration)
    /\ registration[i].pingTimer
    /\ registration' = Prune([registration EXCEPT ![i].pingTimer = FALSE])
    /\ emitted' = IF isConnected THEN <<Emit("ping", NULL)>> ELSE <<>>
    /\ lastCall' = [op |-> "registrationPingTimer", call |-> i]
    /\ UNCHANGED <<now, sessVars, lastMessageTime, muteVars, bufVars, roomVars,
                   reconVars, compVars>>

\* The 5 s timer of a call that removes its 'error' listener; the 1 s timer
\* set just before it has fired by then.
RegistrationOffTimer(i) ==
    /\ i \in 1..Len(registration)
    /\ registration[i].offTimer
    /\ ~registration[i].pingTimer
    /\ registration' = Prune([registration EXCEPT ![i].offTimer = FALSE,
                                                  ![i].listener = FALSE])
    /\ emitted' = <<>>
    /\ lastCall' = [op |-> "registrationOffTimer", call |-> i]
    /\ UNCHANGED <<now, sessVars, lastMessageTime, muteVars, bufVars, roomVars,
                   reconVars, compVars>>

\* The 1 s timer the error handler of a call starts: the retry
RegistrationRetryTimer(i) ==
    /\ i \in 1..Len(registration)
    /\ registration[i].retryTimers > 0
    /\ LET user == registration[i].user
           retried == [registration EXCEPT
                         ![i].retryTimers = @ - 1,
                         ![i].emissions = IF isConnected THEN @ + 1 ELSE @]
       IN /\ emitted' = IF isConnected
                        THEN <<Emit("register_user",
                                    [identity |-> user.identity,
                                     username |-> user.username,
                                     color |-> user.color])>>
                        ELSE <<>>
          /\ lastCall' = [op |-> "registrationRetryTimer", call |-> i,
                          emissions |-> retried[i].emissions]
          /\ registration' = Prune(retried)
    /\ UNCHANGED <<now, sessVars, lastMessageTime, muteVars, bufVars, roomVars,
                   reconVars, compVars>>

NextRegister ==
    \/ SocketConnect
    \/ \E reason \in DisconnectReasons : SocketDisconnect(reason)
    \/ createUser("user_a", "#39ff14", "identity_1")
    \/ \E error \in ErrorPayloads : isConnected /\ socket_error(error)
    \/ \E i \in 1..MaxRegistrations : RegistrationPingTimer(i)
    \/ \E i \in 1..MaxRegistrations : RegistrationOffTimer(i)
    \/ \E i \in 1..MaxRegistrations : RegistrationRetryTimer(i)

SpecRegister == Init /\ [][NextRegister]_vars

\* C23: for one registerUserWithServer call at most two 'register_user'
\* events are emitted, the one of the call and one retry, however many
\* 'error' events arrive: no call ever has more than one retry timer, a call
\* that has retried has no listener left, and a retry is the second
\* emission of its call.
C23_RegistrationRetriedAtMostOnce ==
    /\ \A i \in 1..Len(registration) :
          /\ registration[i].emissions + registration[i].retryTimers <= 2
          /\ registration[i].listener =>
                (registration[i].emissions = 1 /\ registration[i].retryTimers = 0)
    /\ lastCall.op = "registrationRetryTimer" => lastCall.emissions <= 2

\* A call has emitted its retry, and a further 'error' event has arrived.
C23_Witness ==
    /\ lastCall.op = "error"
    /\ lastCall.error = [message |-> "Not registered"]
    /\ \E i \in 1..Len(registration) : registration[i].emissions = 2

-----------------------------------------------------------------------------
(* Typing signals (Index.tsx 1357-1373) *)

DebounceMs == 1000

\* The values of the input field after a change: a text, and the empty text
InputContents == {<<"h">>, <<>>}

\* handleInputChange(content).  debounce (lodash) restarts its timer on
\* every call of debouncedStopTyping.  typing.lastChange is history: the time
\* of the most recent change of the input.
handleInputChange(content) ==
    /\ IF content # <<>>
       THEN /\ emitted' = <<Emit("typing_start", NULL)>>
            /\ typing' = [timer |-> [at |-> now + DebounceMs],
                          lastChange |-> [at |-> now]]
       ELSE /\ emitted' = <<>>
            /\ typing' = [typing EXCEPT !.lastChange = [at |-> now]]
    /\ lastCall' = [op |-> "handleInputChange", content |-> content]
    /\ UNCHANGED <<now, sessVars, lastMessageTime, muteVars, bufVars, roomVars,
                   reconVars, registration, hack, thread, monitor>>

\* The debounce timer fires: the function passed to debounce runs
debouncedStopTyping ==
    /\ typing.timer # NULL
    /\ now >= typing.timer.at
    /\ emitted' = <<Emit("typing_stop", NULL)>>
    /\ typing' = [typing EXCEPT !.timer = NULL]
    /\ lastCall' = Call("debouncedStopTyping")
    /\ UNCHANGED <<now, sessVars, lastMessageTime, muteVars, bufVars, roomVars,
                   reconVars, registration, hack, thread, monitor>>

NextTyping ==
    \/ SocketConnect
    \/ \E content \in InputContents : handleInputChange(content)
    \/ debouncedStopTyping
    \/ \E d \in {DebounceMs \div 2, DebounceMs} : Advance(d)

SpecTyping == Init /\ [][NextTyping]_vars

\* C22, as stated: every change of the input emits 'typing_start' at once,
\* and 'typing_stop' is emitted only when the input has been idle for the
\* whole debounce delay since its most recent change, once per burst of
\* changes (no second 'typing_stop' without a change in between).
C22_TypingStopAfterFullIdleDelay ==
    /\ lastCall.op = "handleInputChange" => Emits("typing_start")
    /\ Emits("typing_stop") =>
          /\ typing.lastChange # NULL
          /\ now - typing.lastChange.at >= DebounceMs
          /\ typing.timer = NULL

-----------------------------------------------------------------------------
(* extractMentions (Index.tsx 706-711) *)

MaxMentionText == 4

RECURSIVE Texts(_, _)
Texts(alphabet, n) ==
    IF n = 0 THEN {<<>>}
    ELSE LET shorter == Texts(alphabet, n - 1)
         IN shorter \cup {Append(t, c) : t \in shorter, c \in alphabet}

\* Message texts: all of at most MaxMentionText characters over a small
\* alphabet, and one longer example
MentionTexts ==
    Texts({"@", "b", "o", " "}, MaxMentionText)
        \cup {<<"h", "i", " ", "@", "b", "o", "b">>}

\* extractMentions(content), called by sendRoomMessage
extractMentionsCall(content) ==
    /\ lastCall' = [op |-> "extractMentions", content |-> content,
                    result |-> extractMentions(content)]
    /\ UNCHANGED <<now, sessVars, lastMessageTime, muteVars, bufVars, roomVars,
                   reconVars, registration, compVars, emitted>>

NextMentions == \E content \in MentionTexts : extractMentionsCall(content)

SpecMentions == Init /\ [][NextMentions]_vars

\* C24: extractMentions(text) returns, in order of occurrence, exactly the
\* maximal runs of word characters that directly follow an '@' in text,
\* each without the '@'; a text without an '@' that a word character
\* follows yields the empty list.
C24_MentionsAreMaximalWordRunsAfterAt ==
    lastCall.op = "extractMentions" =>
        LET text == lastCall.content
            result == lastCall.result
            starts == MentionStarts(text)
            nth(k) == CHOOSE i \in starts :
                         Cardinality({j \in starts : j < i}) = k - 1
        IN /\ Len(result) = Cardinality(starts)
           /\ \A k \in 1..Len(result) :
                 \E j \in (nth(k) + 1)..Len(text) :
                    /\ result[k] = SubSeq(text, nth(k) + 1, j)
                    /\ \A m \in (nth(k) + 1)..j : text[m] \in WordChars
                    /\ j = Len(text) \/ text[j + 1] \notin WordChars
           /\ starts = {} => result = <<>>

C24_Witness ==
    /\ lastCall.op = "extractMentions"
    /\ lastCall.content = <<"h", "i", " ", "@", "b", "o", "b">>
    /\ lastCall.result = <<(<<"b", "o", "b">>)>>

-----------------------------------------------------------------------------
(* joinRoom: settling of the promise (Index.tsx 961-1139) *)

\* C25: every joinRoom call settles exactly once.  For every order and
\* subset of the server events, the promise of a call is resolved when its 5 s
\* timer has run, and once resolved its outcome never changes.
C25_JoinSettlesOnceByTimeout ==
    /\ [](join.active /\ join.timeoutTimer = "fired" => join.promise # "pending")
    /\ [][/\ join.active
          /\ join.promise # "pending"
          /\ join'.count = join.count
          => join'.promise = join.promise]_vars

\* The 5 s timer settles a call that a confirmation, but no metadata, reached
\* less than 300 ms before
C25_Witness ==
    /\ lastCall.op = "joinTimeout"
    /\ join.promise = "true"
    /\ join.graceTimer = "pending"
    /\ join.finishCount = 1


\* C26, as stated: once a joinRoom call has finalized the join, its grace
\* and timeout timers have no further effect: finishJoining runs at most once
\* per call, and a timer that fires afterwards changes neither currentRoom
\* nor roomMessages.
C26_FinishJoiningRunsOnce ==
    /\ [](join.active => join.finishCount <= 1)
    /\ [][/\ join.active
          /\ join.finishCount >= 1
          /\ lastCall'.op \in {"joinGraceTimer", "joinTimeout"}
          => /\ currentRoom' = currentRoom
             /\ roomMessages' = roomMessages]_vars

-----------------------------------------------------------------------------
(* The room buffer and the current room *)

\* C27, as stated: roomMessages is empty whenever currentRoom is null, and
\* otherwise every entry of roomMessages has the roomId of currentRoom, also
\* when a pending operation (join timer, hack result, metadata update)
\* completes after the user left or switched rooms.
C27_RoomBufferMatchesCurrentRoom ==
    IF currentRoom = NULL
    THEN roomMessages = <<>>
    ELSE \A i \in 1..Len(roomMessages) : roomMessages[i].roomId = currentRoom.id


(* executeHack (Index.tsx 1529-1540, 1603-1684) *)

MaxHacks == 1

\* socket 'hack_access_update' handler
hack_access_update(data) ==
    /\ hack' = [hack EXCEPT !.hasHackAccess = data.hasAccess]
    /\ emitted' = <<>>
    /\ lastCall' = [op |-> "hack_access_update", data |-> data]
    /\ UNCHANGED <<now, sessVars, lastMessageTime, muteVars, bufVars, roomVars,
                   reconVars, registration, typing, thread, monitor>>

\* executeHack().  handleHackResult and the timeout callback are closures of
\* the call: they hold the currentUser and currentRoom of the render in
\* which executeHack was created.
executeHack ==
    /\ IF currentUser = NULL \/ ~hack.hasHackAccess
       THEN /\ emitted' = <<>>
            /\ lastCall' = [op |-> "executeHack", result |-> "failure"]
            /\ UNCHANGED hack
       ELSE /\ hack.count < MaxHacks
            /\ emitted' = <<Emit("execute_hack",
                                 [userId |-> currentUser.id,
                                  targetMode |-> "random"])>>
            /\ hack' = [hack EXCEPT
                          !.calls = Append(@, [currentUser |-> currentUser,
                                               currentRoom |-> currentRoom,
                                               listener |-> TRUE,
                                               timer |-> "pending",
                                               promise |-> "pending"]),
                          !.count = @ + 1]
            /\ lastCall' = [op |-> "executeHack", result |-> "promise"]
    /\ UNCHANGED <<now, sessVars, lastMessageTime, muteVars, bufVars, roomVars,
                   reconVars, registration, typing, thread, monitor>>

\* The 5 s timer of an executeHack call
HackTimeout(i) ==
    /\ i \in 1..Len(hack.calls)
    /\ hack.calls[i].timer = "pending"
    /\ hack' = [hack EXCEPT
                  !.calls[i].timer = "fired",
                  !.calls[i].promise = IF @ = "pending" THEN "timedOut" ELSE @]
    /\ emitted' = <<>>
    /\ lastCall' = [op |-> "hackTimeout", call |-> i]
    /\ UNCHANGED <<now, sessVars, lastMessageTime, muteVars, bufVars, roomVars,
                   reconVars, registration, typing, thread, monitor>>

\* handleHackResult of one call, on the two buffers
handleHackResult(bufs, call, response) ==
    IF ~response.success THEN bufs
    ELSE LET content == [hacker |-> call.currentUser.username,
                         victims |-> response.victims,
                         stolenPoints |-> response.stolenPoints]
         IN IF call.currentRoom # NULL
            THEN [bufs EXCEPT !.roomMessages =
                    AppendSlice(@, SystemMessage(content, call.currentRoom.id))]
            ELSE [bufs EXCEPT !.messages =
                    AppendSlice(@, SystemMessage(content, GLOBAL))]

\* The listeners of 'hack_result' run in the order of their registration
RECURSIVE HackResultListeners(_, _, _, _)
HackResultListeners(bufs, calls, i, response) ==
    IF i > Len(calls) THEN bufs
    ELSE HackResultListeners(
            IF calls[i].listener
            THEN handleHackResult(bufs, calls[i], response) ELSE bufs,
            calls, i + 1, response)

\* socket 'hack_result': every listener was registered with socket.once
hack_result(response) ==
    /\ LET bufs == HackResultListeners(
                      [roomMessages |-> roomMessages, messages |-> messages],
                      hack.calls, 1, response)
       IN /\ roomMessages' = bufs.roomMessages
          /\ messages' = bufs.messages
    /\ hack' = [hack EXCEPT !.calls =
                  [i \in 1..Len(@) |->
                     IF @[i].listener
                     THEN [@[i] EXCEPT
                             !.listener = FALSE,
                             !.timer = IF @ = "pending" THEN "cleared" ELSE @,
                             !.promise = IF @ # "pending" THEN @
                                         ELSE IF response.success
                                              THEN "success" ELSE "failure"]
                     ELSE @[i]]]
    /\ emitted' = <<>>
    /\ lastCall' = [op |-> "hack_result", response |-> response,
                    heard |-> \E i \in 1..Len(hack.calls) :
                                 hack.calls[i].listener]
    /\ UNCHANGED <<now, sessVars, lastMessageTime, muteVars, roomMessagesSeen,
                   roomVars, reconVars, registration, typing, thread, monitor>>

HackAccessPayloads == {[hasAccess |-> a] : a \in BOOLEAN}

HackResponses ==
    {[success |-> s, stolenPoints |-> 5, victims |-> <<"user_b">>] :
        s \in BOOLEAN}

NextHack ==
    \/ SocketConnect
    \/ createUser("user_a", "#39ff14", "identity_1")
    \/ \E name \in RoomNames, theme \in RoomThemes : createRoom(name, theme)
    \/ \E code \in CodeInputs : joinRoom(code)
    \/ \E confirm \in ConfirmPayloads : room_joined_confirm(confirm)
    \/ JoinGraceTimer
    \/ JoinTimeout
    \/ leaveRoom
    \/ \E data \in HackAccessPayloads : hack_access_update(data)
    \/ executeHack
    \/ \E i \in 1..MaxHacks : HackTimeout(i)
    \/ \E response \in HackResponses :
          /\ Len(roomMessages) < MaxRoomLog
          /\ Len(messages) < MaxGlobalLog
          /\ hack_result(response)

SpecHack == Init /\ [][NextHack]_vars

-----------------------------------------------------------------------------
(* MessageList: the thread view (part_009 14-304) *)

\* Only the first MaxThreaded messages may be replies; messages arrive until
\* the buffer has evicted MaxEvicted of them.
MaxThreaded == 5
MaxEvicted == 2

\* The messages prop is a buffer of the provider, which appends with
\* [...prev, message].slice(-MAX_MESSAGES).  A reply refers to a message
\* that was sent before it; system messages are not replies and receive none
\* (renderMessage shows no reply button on them).
threadReceive(replyTo, isSystem) ==
    /\ ~(thread.frame # NULL /\ thread.frame.pc = "while")
    /\ thread.count < MAX_MESSAGES + MaxEvicted
    /\ replyTo # NULL =>
          /\ thread.count < MaxThreaded
          /\ ~isSystem
          /\ \E i \in 1..Len(thread.messages) :
                /\ thread.messages[i].id = replyTo.id
                /\ ~thread.messages[i].isSystem
    /\ isSystem => thread.count < MaxThreaded
    /\ thread' = [thread EXCEPT
                    !.messages = AppendSlice(@, [id |-> MsgId(thread.count + 1),
                                                 replyTo |-> replyTo,
                                                 isSystem |-> isSystem]),
                    !.count = @ + 1]
    /\ emitted' = <<>>
    /\ lastCall' = [op |-> "threadReceive", replyTo |-> replyTo]
    /\ UNCHANGED <<now, sessVars, lastMessageTime, muteVars, bufVars, roomVars,
                   reconVars, registration, typing, hack, monitor>>

\* buildThreads(): the messages without replyTo, and the map from the id of
\* a parent to the replies to it
buildThreads(msgs) ==
    [mainMessages |-> SelectSeq(msgs, LAMBDA m : m.replyTo = NULL),
     threads |->
        [parentId \in {msgs[i].replyTo.id :
                          i \in {j \in 1..Len(msgs) :
                                    msgs[j].replyTo # NULL}} |->
           SelectSeq(msgs, LAMBDA m : /\ m.replyTo # NULL
                                          /\ m.replyTo.id = parentId)]]

\* replies.slice(0, 3)
Slice3(replies) == SubSeq(replies, 1, IF Len(replies) < 3 THEN Len(replies) ELSE 3)

\* renderMessage(message, ...): the ids of the messages in the element it
\* returns, for a set of expanded threads
RECURSIVE renderMessage(_, _, _)
renderMessage(msgs, message, expandedThreads) ==
    LET threads == buildThreads(msgs).threads
        replies == IF message.id \in DOMAIN threads
                   THEN threads[message.id] ELSE <<>>
        hasMoreThanThreeReplies == Len(replies) > 3
        isExpanded == message.id \in expandedThreads
        displayedReplies == IF hasMoreThanThreeReplies /\ ~isExpanded
                            THEN Slice3(replies) ELSE replies
    IN {message.id} \cup
       (IF message.isSystem THEN {}
        ELSE UNION {renderMessage(msgs, displayedReplies[k],
                                  expandedThreads) :
                       k \in 1..Len(displayedReplies)})

\* The ids in what MessageList returns: mainMessages.map(renderMessage)
MessageListRender(msgs, expandedThreads) ==
    LET mainMessages == buildThreads(msgs).mainMessages
    IN UNION {renderMessage(msgs, mainMessages[k], expandedThreads) :
                 k \in 1..Len(mainMessages)}

Ids(msgs) == {msgs[i].id : i \in 1..Len(msgs)}

NextThread ==
    \E replyTo \in {NULL} \cup {[id |-> MsgId(k)] : k \in 1..MaxThreaded},
       isSystem \in BOOLEAN :
        threadReceive(replyTo, isSystem)

SpecThread == Init /\ [][NextThread]_vars

\* C28, as stated: the thread view loses no retained message.  Every
\* message of the buffer is a main message or is reached from a main message
\* through the reply map (all threads expanded), also after the buffer has
\* evicted the parent of a retained reply.
C28_ThreadViewLosesNoMessage ==
    MessageListRender(thread.messages, Ids(thread.messages))
        = Ids(thread.messages)

-----------------------------------------------------------------------------
(* ThreadModal: getReplyDepth (ThreadModal.tsx 70-96) *)

\* depth is followed up to MaxDepth and kept there by further increments
MaxDepth == 4

InThread(i) == i \in 1..Len(thread.messages)

\* getReplyDepth(message, originalMessageId) is called and runs up to the
\* first test of its loop
getReplyDepthCall(i, originalMessageId) ==
    /\ ~(thread.frame # NULL /\ thread.frame.pc = "while")
    /\ InThread(i)
    /\ thread' = [thread EXCEPT !.frame =
                    [pc |-> "while", depth |-> 1,
                     currentMessage |-> thread.messages[i],
                     message |-> thread.messages[i],
                     originalMessageId |-> originalMessageId]]
    /\ emitted' = <<>>
    /\ lastCall' = [op |-> "getReplyDepth", message |-> thread.messages[i],
                    originalMessageId |-> originalMessageId]
    /\ UNCHANGED <<now, sessVars, lastMessageTime, muteVars, bufVars, roomVars,
                   reconVars, registration, typing, hack, monitor>>

\* One test of the loop condition, with the loop body or the return that
\* follows it.  The body assigns to currentMessage a copy of currentMessage
\* with the same replyTo.
getReplyDepthLoop ==
    /\ thread.frame # NULL
    /\ thread.frame.pc = "while"
    /\ LET f == thread.frame
       IN thread' = [thread EXCEPT !.frame =
            IF /\ f.currentMessage.replyTo # NULL
               /\ f.currentMessage.replyTo.id # f.originalMessageId
            THEN [f EXCEPT
                    !.depth = IF @ < MaxDepth THEN @ + 1 ELSE @,
                    !.currentMessage =
                       [f.currentMessage EXCEPT
                          !.replyTo = f.currentMessage.replyTo]]
            ELSE [f EXCEPT !.pc = "return"]]
    /\ emitted' = <<>>
    /\ lastCall' = Call("getReplyDepthLoop")
    /\ UNCHANGED <<now, sessVars, lastMessageTime, muteVars, bufVars, roomVars,
                   reconVars, registration, typing, hack, monitor>>

\* The message of the buffer with this id, or NULL
ById(msgs, id) ==
    IF \E i \in 1..Len(msgs) : msgs[i].id = id
    THEN msgs[CHOOSE i \in 1..Len(msgs) : msgs[i].id = id]
    ELSE NULL

\* The number of reply links from a message up to the message with id
\* rootId; 0 if the message is not in the thread of rootId
RECURSIVE ReplyLinks(_, _, _)
ReplyLinks(msgs, message, rootId) ==
    IF message = NULL \/ message.replyTo = NULL THEN 0
    ELSE IF message.replyTo.id = rootId THEN 1
    ELSE LET above == ReplyLinks(msgs, ById(msgs, message.replyTo.id), rootId)
         IN IF above = 0 THEN 0 ELSE above + 1

NextDepth ==
    \/ \E replyTo \in {NULL} \cup {[id |-> MsgId(k)] : k \in 1..MaxThreaded},
          isSystem \in BOOLEAN :
           thread.count < MaxThreaded /\ threadReceive(replyTo, isSystem)
    \/ \E i \in 1..MaxThreaded, root \in 1..MaxThreaded :
          /\ InThread(i)
          /\ ReplyLinks(thread.messages, thread.messages[i], MsgId(root)) > 0
          /\ getReplyDepthCall(i, MsgId(root))
    \/ getReplyDepthLoop

SpecDepth == Init /\ [][NextDepth]_vars

\* getReplyDepth is synchronous code: once called, it keeps running
SpecDepthFair == SpecDepth /\ WF_vars(getReplyDepthLoop)

GetReplyDepthRuns == thread.frame # NULL /\ thread.frame.pc = "while"

GetReplyDepthReturned == thread.frame # NULL /\ thread.frame.pc = "return"

\* C29, as stated: for every reply that belongs to the thread rooted at
\* rootId, getReplyDepth(reply, rootId) terminates, and it returns the number
\* of reply links between the reply and the root.
C29_GetReplyDepthTerminatesWithLinkCount ==
    /\ GetReplyDepthRuns ~> GetReplyDepthReturned
    /\ [](GetReplyDepthReturned =>
            thread.frame.depth = ReplyLinks(thread.messages,
                                            thread.frame.message,
                                            thread.frame.originalMessageId))

-----------------------------------------------------------------------------
(* createStatusMonitor (utils/serverStatus.ts 62-95) *)

MaxStarts == 3
MaxInFlight == 2

\* check(): up to the await of checkServerStatus()
check(mon, origin) == [mon EXCEPT !.inFlight = Append(@, origin)]

\* start()
monitorStart ==
    /\ monitor.handles < MaxStarts
    /\ Len(monitor.inFlight) < MaxInFlight
    /\ LET id == monitor.handles + 1
       IN monitor' = [check(monitor, "start") EXCEPT
                        !.handles = id,
                        !.intervals = @ \cup {id},
                        !.intervalId = [handle |-> id],
                        !.stopped = FALSE]
    /\ emitted' = <<>>
    /\ lastCall' = Call("monitor.start")
    /\ UNCHANGED <<now, sessVars, lastMessageTime, muteVars, bufVars, roomVars,
                   reconVars, registration, typing, hack, thread>>

\* stop()
monitorStop ==
    /\ monitor' = IF monitor.intervalId # NULL
                  THEN [monitor EXCEPT
                          !.intervals = @ \ {monitor.intervalId.handle},
                          !.intervalId = NULL,
                          !.stopped = TRUE]
                  ELSE [monitor EXCEPT !.stopped = TRUE]
    /\ emitted' = <<>>
    /\ lastCall' = Call("monitor.stop")
    /\ UNCHANGED <<now, sessVars, lastMessageTime, muteVars, bufVars, roomVars,
                   reconVars, registration, typing, hack, thread>>

\* checkNow()
monitorCheckNow ==
    /\ Len(monitor.inFlight) < MaxInFlight
    /\ monitor' = check(monitor, "checkNow")
    /\ emitted' = <<>>
    /\ lastCall' = Call("monitor.checkNow")
    /\ UNCHANGED <<now, sessVars, lastMessageTime, muteVars, bufVars, roomVars,
                   reconVars, registration, typing, hack, thread>>

\* An interval of the window fires and calls check
monitorIntervalTick(id) ==
    /\ id \in monitor.intervals
    /\ Len(monitor.inFlight) < MaxInFlight
    /\ monitor' = check(monitor, "interval")
    /\ emitted' = <<>>
    /\ lastCall' = [op |-> "monitor.intervalTick", handle |-> id,
                    afterStop |-> monitor.stopped]
    /\ UNCHANGED <<now, sessVars, lastMessageTime, muteVars, bufVars, roomVars,
                   reconVars, registration, typing, hack, thread>>

\* checkServerStatus() of a check settles; check calls callback(status)
monitorCallback(k, status) ==
    /\ k \in 1..Len(monitor.inFlight)
    /\ monitor' = [monitor EXCEPT !.inFlight =
                     SubSeq(@, 1, k - 1) \o SubSeq(@, k + 1, Len(@))]
    /\ emitted' = <<>>
    /\ lastCall' = [op |-> "monitor.callback", status |-> status,
                    origin |-> monitor.inFlight[k]]
    /\ UNCHANGED <<now, sessVars, lastMessageTime, muteVars, bufVars, roomVars,
                   reconVars, registration, typing, hack, thread>>

StatusResults == {[online |-> o] : o \in BOOLEAN}

NextMonitor ==
    \/ monitorStart
    \/ monitorStop
    \/ monitorCheckNow
    \/ \E id \in 1..MaxStarts : monitorIntervalTick(id)
    \/ \E k \in 1..MaxInFlight, status \in StatusResults :
          monitorCallback(k, status)

SpecMonitor == Init /\ [][NextMonitor]_vars

\* C30, as stated: after stop() has returned (and until the next start())
\* no periodic check remains scheduled and no interval of the monitor fires,
\* for every sequence of start() and stop() calls.
C30_NoCheckScheduledAfterStop ==
    /\ monitor.stopped => monitor.intervals = {}
    /\ lastCall.op = "monitor.intervalTick" => ~lastCall.afterStop

=============================================================================
